---------------------------- MODULE Spec2Model ----------------------------
(***************************************************************************)
(* Model of the template-driven document assembly engine of                *)
(* DocumentTemplateGenerator: templateHelpers (getNestedValue,             *)
(* renderTemplate, evaluateCondition, isFieldVisible), the form's          *)
(* evaluateConditional, and documentGenerator (generateFromStructure,      *)
(* processContentItem, createTable, generateHtmlPreview,                   *)
(* renderHtmlContentItem, escapeHtml).                                     *)
(*                                                                         *)
(* JavaScript values are records tagged by their typeof-like kind `t`:     *)
(*   undefined, null, boolean, number (integers only), string, array       *)
(*   (a sequence of values), object (a function from keys to values),      *)
(*   function (the formatDate helper) and TypeError (a thrown exception,   *)
(*   which aborts the computation that meets it).                          *)
(* Strings are TLA+ strings; TLC evaluates Len, SubSeq and \o on them.     *)
(***************************************************************************)
EXTENDS Integers, Sequences, FiniteSets, TLC

VARIABLES
  path,        \* getNestedValue: the dotted path
  template,    \* renderTemplate: the template value
  data,        \* the user data record (userData / formData / obj)
  boilerplate, \* renderTemplate: the boilerplate argument
  condition,   \* evaluateCondition: the condition object
  item,        \* createTable / processContentItem: the content item
  structure,   \* generateFromStructure: structureJson
  content,     \* contentJson
  today,       \* what getToday() returns when called
  out,         \* results of the calls made so far, by call site
  schema,      \* the schema_json of the template row
  tableField,  \* TableField: the field prop
  formRows,    \* TableField: the rows state
  formValue,   \* TableField: what setValue(field.id, rows) gave the form
  session,     \* the upload_sessions row
  uploads,     \* upload requests between their read and their update
  analyses,    \* analyze requests between their read and their update
  templateRows, \* the rows of the templates table, in the order of their insertion
  creates,     \* create-template requests between their read and their last update
  documentRows, \* the rows of the generated_documents table
  files,       \* the paths of the files in the storage under generated/
  poll         \* CreateTemplate.jsx: the state of the page and of its polling

\* the state of the form's table field
formVars == <<tableField, formRows, formValue>>

\* the state of the upload session and of the requests on it
\* the templates made of the upload session and the requests that make them
templateVars == <<templateRows, creates>>

\* the documents generated and their files
documentVars == <<documentRows, files>>

sessionVars == <<session, uploads, analyses, templateVars, documentVars, poll>>

vars == <<path, template, data, boilerplate, condition, item, structure,
          content, today, out, schema, formVars, sessionVars>>

---------------------------------------------------------------------------
(* JavaScript values *)

Undef == [t |-> "undefined"]
Null == [t |-> "null"]
TypeError == [t |-> "TypeError"]
Bool(b) == [t |-> "boolean", v |-> b]
Num(n) == [t |-> "number", v |-> n]
Str(s) == [t |-> "string", v |-> s]
Arr(seq) == [t |-> "array", v |-> seq]
Obj(f) == [t |-> "object", v |-> f]
EmptyObj == Obj([k \in {} |-> Undef])
\* a function value, by name: the helper (date) => formatDate(date) merged into
\* the data record, and the methods every value inherits from Object.prototype
Fn(name) == [t |-> "function", v |-> name]
FormatDateFn == Fn("formatDate")

IsNullish(x) == x.t \in {"undefined", "null"}
IsFalseValue(x) == x.t = "boolean" /\ ~x.v
Threw(x) == x.t = "TypeError"

\* ToBoolean
Truthy(x) ==
  CASE x.t \in {"undefined", "null"} -> FALSE
    [] x.t = "boolean" -> x.v
    [] x.t = "number" -> x.v # 0
    [] x.t = "string" -> x.v # ""
    [] OTHER -> TRUE

---------------------------------------------------------------------------
(* Strings *)

Char(s, i) == SubSeq(s, i, i)

Digits == "0123456789"

DigitOf(c) == (CHOOSE i \in 1..10 : Char(Digits, i) = c) - 1

IsDigit(c) == \E i \in 1..10 : Char(Digits, i) = c

IsSpace(c) == c \in {" ", "\t", "\n", "\r"}

\* printable characters in code-unit order, for relational comparison of strings
AsciiOrder == " !#$%&'()*+,-./0123456789:;<=>?@ABCDEFGHIJKLMNOPQRSTUVWXYZ[]^_abcdefghijklmnopqrstuvwxyz{|}~"

CharCode(c) == CHOOSE i \in 1..Len(AsciiOrder) : Char(AsciiOrder, i) = c

RECURSIVE TrimStart(_)
TrimStart(s) ==
  IF s # "" /\ IsSpace(Char(s, 1)) THEN TrimStart(SubSeq(s, 2, Len(s))) ELSE s

RECURSIVE TrimEnd(_)
TrimEnd(s) ==
  IF s # "" /\ IsSpace(Char(s, Len(s))) THEN TrimEnd(SubSeq(s, 1, Len(s) - 1)) ELSE s

\* String.prototype.trim
Trim(s) == TrimEnd(TrimStart(s))

\* String.prototype.startsWith
StartsWith(s, p) == Len(s) >= Len(p) /\ SubSeq(s, 1, Len(p)) = p

\* String.prototype.substring(n)
Substring(s, n) == IF n >= Len(s) THEN "" ELSE SubSeq(s, n + 1, Len(s))

\* String.prototype.includes
StrIncludes(s, sub) ==
  \E i \in 0..(Len(s) - Len(sub)) : SubSeq(s, i + 1, i + Len(sub)) = sub

\* the index of the first sep at or after i, or 0
RECURSIVE IndexFrom(_, _, _)
IndexFrom(s, sep, i) ==
  IF i > Len(s) THEN 0
  ELSE IF Char(s, i) = sep THEN i
  ELSE IndexFrom(s, sep, i + 1)

\* String.prototype.split(sep) for a one-character separator
RECURSIVE Split(_, _)
Split(s, sep) ==
  LET i == IndexFrom(s, sep, 1)
  IN IF i = 0 THEN <<s>>
     ELSE <<SubSeq(s, 1, i - 1)>> \o Split(SubSeq(s, i + 1, Len(s)), sep)

\* s.replace(/[chars]/g, '')
RECURSIVE RemoveChars(_, _)
RemoveChars(s, chars) ==
  IF s = "" THEN ""
  ELSE (IF Char(s, 1) \in chars THEN "" ELSE Char(s, 1))
       \o RemoveChars(SubSeq(s, 2, Len(s)), chars)

RECURSIVE NatToString(_)
NatToString(n) ==
  IF n < 10 THEN Char(Digits, n + 1)
  ELSE NatToString(n \div 10) \o Char(Digits, (n % 10) + 1)

\* Number.prototype.toString for integers
NumToString(n) == IF n < 0 THEN "-" \o NatToString(-n) ELSE NatToString(n)

RECURSIVE DigitsToNat(_, _)
DigitsToNat(s, acc) ==
  IF s = "" THEN acc
  ELSE DigitsToNat(SubSeq(s, 2, Len(s)), 10 * acc + DigitOf(Char(s, 1)))

AllDigits(s) == s # "" /\ \A i \in 1..Len(s) : IsDigit(Char(s, i))

NaN == [nan |-> TRUE, n |-> 0]
Finite(n) == [nan |-> FALSE, n |-> n]

\* an integer literal without surrounding whitespace, as a number
ParseNumber(u) ==
  IF u = "" THEN Finite(0)
  ELSE IF AllDigits(u) THEN Finite(DigitsToNat(u, 0))
  ELSE IF Char(u, 1) = "-" /\ AllDigits(Substring(u, 1))
    THEN Finite(0 - DigitsToNat(Substring(u, 1), 0))
  ELSE IF Char(u, 1) = "+" /\ AllDigits(Substring(u, 1))
    THEN Finite(DigitsToNat(Substring(u, 1), 0))
  ELSE NaN

\* StringToNumber, integer literals only: whitespace is trimmed, "" is 0
StringToNumber(s) == ParseNumber(Trim(s))

\* a < b on strings, by code units
RECURSIVE StrLess(_, _)
StrLess(a, b) ==
  IF b = "" THEN FALSE
  ELSE IF a = "" THEN TRUE
  ELSE IF Char(a, 1) = Char(b, 1)
    THEN StrLess(SubSeq(a, 2, Len(a)), SubSeq(b, 2, Len(b)))
  ELSE CharCode(Char(a, 1)) < CharCode(Char(b, 1))

---------------------------------------------------------------------------
(* Conversions and operators of the language *)

\* String(x)
RECURSIVE StringOf(_)
RECURSIVE JoinComma(_)
JoinComma(seq) ==
  IF seq = <<>> THEN ""
  ELSE (IF IsNullish(Head(seq)) THEN "" ELSE StringOf(Head(seq)))
       \o (IF Len(seq) > 1 THEN "," \o JoinComma(Tail(seq)) ELSE "")

StringOf(x) ==
  CASE x.t = "undefined" -> "undefined"
    [] x.t = "null" -> "null"
    [] x.t = "boolean" -> IF x.v THEN "true" ELSE "false"
    [] x.t = "number" -> NumToString(x.v)
    [] x.t = "string" -> x.v
    [] x.t = "array" -> JoinComma(x.v)
    [] x.t = "object" -> "[object Object]"
    [] x.t = "function" ->
         IF x.v = "formatDate" THEN "(date) => formatDate(date)"
         ELSE "function " \o x.v \o "() { [native code] }"

\* ToPrimitive followed by ToNumber
ToNumber(x) ==
  CASE x.t = "undefined" -> NaN
    [] x.t = "null" -> Finite(0)
    [] x.t = "boolean" -> IF x.v THEN Finite(1) ELSE Finite(0)
    [] x.t = "number" -> Finite(x.v)
    [] OTHER -> StringToNumber(StringOf(x))

\* a === b ; two objects or arrays parsed from different JSON documents are
\* different references
StrictEquals(a, b) ==
  /\ a.t = b.t
  /\ CASE a.t \in {"undefined", "null"} -> TRUE
       [] a.t \in {"boolean", "number", "string"} -> a.v = b.v
       [] OTHER -> FALSE

\* x < y on numbers: false when either is NaN
NumLess(x, y) == ~x.nan /\ ~y.nan /\ x.n < y.n

\* a < b (abstract relational comparison)
LessThan(a, b) ==
  IF a.t \in {"string", "array", "object", "function"}
     /\ b.t \in {"string", "array", "object", "function"}
    THEN StrLess(StringOf(a), StringOf(b))
  ELSE NumLess(ToNumber(a), ToNumber(b))

\* a > b
GreaterThan(a, b) == LessThan(b, a)

\* Array.prototype.includes (SameValueZero; no NaN among JSON values)
ArrayIncludes(arr, x) == \E i \in 1..Len(arr.v) : StrictEquals(arr.v[i], x)

\* the index a property key names (a canonical decimal numeral), or -1
IndexOfKey(key) ==
  IF AllDigits(key) /\ (Len(key) = 1 \/ Char(key, 1) # "0")
    THEN DigitsToNat(key, 0) ELSE 0 - 1

\* property names every value inherits through its prototype chain (a
\* representative pair of the members of Object.prototype)
InheritedKeys == {"constructor", "toString"}

\* the constructor each kind of value inherits
ConstructorOf ==
  [k \in {"object", "array", "string", "number", "boolean", "function"} |->
     CASE k = "object" -> "Object"
       [] k = "array" -> "Array"
       [] k = "string" -> "String"
       [] k = "number" -> "Number"
       [] k = "boolean" -> "Boolean"
       [] OTHER -> "Function"]

\* the inherited property of a value that has no own property of that name
Inherited(x, key) == Fn(IF key = "toString" THEN "toString" ELSE ConstructorOf[x.t])

\* element i (from 0) of an array or a string, undefined outside its bounds
ElementAt(x, i) ==
  IF i < 0 \/ i >= Len(x.v) THEN Undef
  ELSE IF x.t = "array" THEN x.v[i + 1]
  ELSE Str(Char(x.v, i + 1))

\* the own properties of a function value
FnProp(x, key) ==
  IF key = "length" THEN Num(IF x.v = "toString" THEN 0 ELSE 1)
  ELSE IF key = "name" THEN Str(x.v)
  ELSE Undef

\* the own property of a value, undefined when it has none
OwnProp(x, key) ==
  CASE x.t = "object" -> IF key \in DOMAIN x.v THEN x.v[key] ELSE Undef
    [] x.t \in {"array", "string"} ->
         IF key = "length" THEN Num(Len(x.v)) ELSE ElementAt(x, IndexOfKey(key))
    [] x.t = "function" -> FnProp(x, key)
    [] OTHER -> Undef

\* own properties hold JSON values and lengths, never undefined
HasOwn(x, key) == OwnProp(x, key).t # "undefined"

\* x[key] : reading a property of undefined or null throws
Prop(x, key) ==
  IF IsNullish(x) THEN TypeError
  ELSE LET own == OwnProp(x, key)
       IN IF own.t # "undefined" THEN own
          ELSE IF key \in InheritedKeys THEN Inherited(x, key)
          ELSE Undef

\* x?.[key]
OptProp(x, key) == IF IsNullish(x) THEN Undef ELSE Prop(x, key)

\* x.key, key an identifier: the same read without the index lookup
Field(x, key) ==
  IF IsNullish(x) THEN TypeError
  ELSE IF x.t = "object" /\ key \in DOMAIN x.v THEN x.v[key]
  ELSE IF x.t \in {"array", "string"} /\ key = "length" THEN Num(Len(x.v))
  ELSE IF x.t = "function" /\ key \in {"length", "name"} THEN FnProp(x, key)
  ELSE IF key \in InheritedKeys THEN Inherited(x, key)
  ELSE Undef

\* x?.key
OptField(x, key) == IF IsNullish(x) THEN Undef ELSE Field(x, key)

---------------------------------------------------------------------------
(* templateHelpers.js *)

\* path.split('.').reduce((current, key) => current?.[key], obj)
RECURSIVE ReduceKeys(_, _)
ReduceKeys(keys, current) ==
  IF keys = <<>> \/ Threw(current) THEN current
  ELSE ReduceKeys(Tail(keys), OptProp(current, Head(keys)))

\* getNestedValue(obj, path); a truthy path that is no string has no split method
GetNestedValue(obj, p) ==
  IF ~Truthy(p) THEN Undef
  ELSE IF p.t # "string" THEN TypeError
  ELSE ReduceKeys(Split(p.v, "."), obj)

\* the length of the run of characters other than "}" that starts at j
RECURSIVE RunLen(_, _)
RunLen(s, j) ==
  IF j > Len(s) \/ Char(s, j) = "}" THEN 0 ELSE 1 + RunLen(s, j + 1)

\* whether a run of r characters from i + 2 on is closed by "}}"
ClosedRun(s, i, r) ==
  IF r >= 1 /\ i + 3 + r <= Len(s) /\ SubSeq(s, i + 2 + r, i + 3 + r) = "}}" THEN r ELSE 0

\* /{{([^}]+)}}/ tried at position i: the length of the captured group, 0 when
\* the pattern does not match there (the greedy group cannot give back a
\* character, since what follows it must be "}")
MatchAt(s, i) ==
  IF i + 1 <= Len(s) /\ SubSeq(s, i, i + 1) = "{{"
    THEN ClosedRun(s, i, RunLen(s, i + 2))
  ELSE 0

\* value !== undefined ? value : match
ValueOrMatch(value, match) == IF value.t # "undefined" THEN value ELSE Str(match)

\* value !== undefined ? value : ''
ValueOrBlank(value) == IF value.t # "undefined" THEN value ELSE Str("")

\* the replacer with '' in place of the match for an unresolved path
ReplacerBlanking(match, trimmedPath, d, bp) ==
  IF StartsWith(trimmedPath, "boilerplate.")
    THEN ValueOrBlank(GetNestedValue(bp, Str(Substring(trimmedPath, 12))))
  ELSE ValueOrBlank(GetNestedValue(d, Str(trimmedPath)))

\* the replacer that goes on to the data record when the library has no value
ReplacerFallThrough(match, trimmedPath, d, bp) ==
  IF StartsWith(trimmedPath, "boilerplate.")
     /\ GetNestedValue(bp, Str(Substring(trimmedPath, 12))).t # "undefined"
    THEN GetNestedValue(bp, Str(Substring(trimmedPath, 12)))
  ELSE ValueOrMatch(GetNestedValue(d, Str(trimmedPath)), match)

\* the body of the replacer callback of renderTemplate, after path.trim():
\* a boilerplate.* path is looked up in the library, any other in the data
Replacer(match, trimmedPath, d, bp) ==
  IF StartsWith(trimmedPath, "boilerplate.")
    THEN ValueOrMatch(GetNestedValue(bp, Str(Substring(trimmedPath, 12))), match)
  ELSE ValueOrMatch(GetNestedValue(d, Str(trimmedPath)), match)

\* a replacement, converted to a string, followed by the rest of the output
Spliced(rep, rest) ==
  IF Threw(rep) THEN rep
  ELSE IF Threw(rest) THEN rest
  ELSE Str(StringOf(rep) \o rest.v)

\* template.replace(/{{([^}]+)}}/g, (match, path) => ...) from position i on
RECURSIVE ReplaceFrom(_, _, _, _)
RECURSIVE ReplaceAt(_, _, _, _, _)
ReplaceAt(s, i, r, d, bp) ==
  IF r = 0 THEN Spliced(Str(Char(s, i)), ReplaceFrom(s, i + 1, d, bp))
  ELSE Spliced(Replacer(SubSeq(s, i, i + r + 3), Trim(SubSeq(s, i + 2, i + r + 1)), d, bp),
               ReplaceFrom(s, i + r + 4, d, bp))

ReplaceFrom(s, i, d, bp) ==
  IF i > Len(s) THEN Str("") ELSE ReplaceAt(s, i, MatchAt(s, i), d, bp)

\* renderTemplate(template, data, boilerplate = {})
RenderTemplate(tpl, d, bp) ==
  IF ~Truthy(tpl) \/ tpl.t # "string" THEN tpl
  ELSE ReplaceFrom(tpl.v, 1, d, IF bp.t = "undefined" THEN EmptyObj ELSE bp)

IsStr(x, s) == x.t = "string" /\ x.v = s

KnownOperators ==
  {"equals", "not_equals", "greater_than", "less_than", "contains", "not_contains"}

IsKnownOperator(operator) == operator.t = "string" /\ operator.v \in KnownOperators

\* Array.isArray(fieldValue) ? fieldValue.includes(value)
\*                           : String(fieldValue).includes(value)
Includes(fieldValue, value) ==
  IF fieldValue.t = "array" THEN ArrayIncludes(fieldValue, value)
  ELSE StrIncludes(StringOf(fieldValue), StringOf(value))

\* the six case labels of evaluateCondition's switch
CompareKnown(operator, fieldValue, value) ==
  CASE operator.v = "equals" -> Bool(StrictEquals(fieldValue, value))
    [] operator.v = "not_equals" -> Bool(~StrictEquals(fieldValue, value))
    [] operator.v = "greater_than" -> Bool(GreaterThan(fieldValue, value))
    [] operator.v = "less_than" -> Bool(LessThan(fieldValue, value))
    [] operator.v = "contains" -> Bool(Includes(fieldValue, value))
    [] operator.v = "not_contains" -> Bool(~Includes(fieldValue, value))

\* the switch with a default that fails closed
SwitchOperatorFailClosed(operator, fieldValue, value) ==
  IF Threw(fieldValue) THEN fieldValue
  ELSE IF IsKnownOperator(operator) THEN CompareKnown(operator, fieldValue, value)
  ELSE Bool(FALSE)

\* switch (operator) { ... default: return true; } ; what getNestedValue threw
\* on the line before goes on to the caller
SwitchOperator(operator, fieldValue, value) ==
  IF Threw(fieldValue) THEN fieldValue
  ELSE IF IsKnownOperator(operator) THEN CompareKnown(operator, fieldValue, value)
  ELSE Bool(TRUE)

\* evaluateCondition after its first line, on { field, operator, value }
Compare(field, operator, value, d) ==
  IF ~Truthy(field) THEN Bool(TRUE)
  ELSE SwitchOperator(operator, GetNestedValue(d, field), value)

\* evaluateCondition(condition, data)
EvaluateCondition(c, d) ==
  IF ~Truthy(c) THEN Bool(TRUE)
  ELSE Compare(Field(c, "field"), Field(c, "operator"), Field(c, "value"), d)

\* evaluateCondition on show_when, unless there is none
ShowWhen(show_when, formData) ==
  IF ~Truthy(show_when) THEN Bool(TRUE) ELSE EvaluateCondition(show_when, formData)

\* isFieldVisible after field.conditional is read
VisibleWhen(conditional, formData) ==
  IF ~Truthy(conditional) THEN Bool(TRUE)
  ELSE ShowWhen(Field(conditional, "show_when"), formData)

\* isFieldVisible(field, formData)
IsFieldVisible(field, formData) == VisibleWhen(Field(field, "conditional"), formData)

---------------------------------------------------------------------------
(* FormRenderer.jsx *)

\* String(fieldValue || '').includes(value), or includes on an array
FormIncludes(fieldValue, value) ==
  IF fieldValue.t = "array" THEN ArrayIncludes(fieldValue, value)
  ELSE StrIncludes(StringOf(IF Truthy(fieldValue) THEN fieldValue ELSE Str("")),
                   StringOf(value))

\* the switch of evaluateConditional: three case labels and default true
FormSwitch(operator, fieldValue, value) ==
  IF Threw(fieldValue) THEN fieldValue
  ELSE CASE IsStr(operator, "equals") -> Bool(StrictEquals(fieldValue, value))
         [] IsStr(operator, "not_equals") -> Bool(~StrictEquals(fieldValue, value))
         [] IsStr(operator, "contains") -> Bool(FormIncludes(fieldValue, value))
         [] OTHER -> Bool(TRUE)

\* evaluateConditional from const { field, operator, value } on: formData[field]
FormCompare(show_when, formData) ==
  IF ~Truthy(show_when) THEN Bool(TRUE)
  ELSE FormSwitch(Field(show_when, "operator"),
                  Prop(formData, StringOf(Field(show_when, "field"))),
                  Field(show_when, "value"))

\* evaluateConditional(conditional), reading formData = watch()
EvaluateConditional(conditional, formData) ==
  IF ~Truthy(conditional) THEN Bool(TRUE)
  ELSE FormCompare(Field(conditional, "show_when"), formData)

---------------------------------------------------------------------------
(* Inputs: JSON values the callers can pass *)

\* structural equality of two values
RECURSIVE SameValue(_, _)
SameValue(a, b) ==
  /\ a.t = b.t
  /\ CASE a.t \in {"boolean", "number", "string", "function"} -> a.v = b.v
       [] a.t = "array" ->
            /\ Len(a.v) = Len(b.v)
            /\ \A i \in 1..Len(a.v) : SameValue(a.v[i], b.v[i])
       [] a.t = "object" ->
            /\ DOMAIN a.v = DOMAIN b.v
            /\ \A k \in DOMAIN a.v : SameValue(a.v[k], b.v[k])
       [] OTHER -> TRUE

NoCalls == [k \in {} |-> Undef]

\* no table field is mounted
NoForm == tableField = Undef /\ formRows = Undef /\ formValue = Undef

\* there is no upload session
NoTemplates == templateRows = <<>> /\ creates = {}

NoDocuments == documentRows = <<>> /\ files = {}

\* the page as it is mounted: useState(1), useState(false), useState(null)
NoPoll == [step |-> 1, analyzing |-> FALSE, analysisResult |-> Null, runs |-> <<>>]

NoSession ==
  /\ session = Undef /\ uploads = {} /\ analyses = {} /\ NoTemplates
  /\ NoDocuments /\ poll = NoPoll

Called(site) == site \in DOMAIN out

Record(site, result) == out' = (site :> result) @@ out

RootValues ==
  << EmptyObj,
     Obj(("name" :> Str("Ann")) @@ ("qty" :> Num(2))),
     Obj("boilerplate" :> Obj(("blockA" :> Str("DATA")) @@ ("nope" :> Str("FALLTHROUGH")))),
     Obj(("a" :> Obj("b" :> Str("x"))) @@ ("n" :> Null)),
     Obj("missing" :> Obj("path" :> Str("found"))),
     Obj(("" :> Num(1)) @@ ("list" :> Arr(<<Str("p"), Str("q")>>))),
     Obj(("a" :> Obj(("b" :> Obj("c" :> Bool(FALSE))) @@ ("" :> Obj("b" :> Num(7)))))),
     Null,
     Undef,
     Str("text") >>

PathValues ==
  << "", "a", "a.b", "a.b.c", "a.c", "a.c.d", "n", "n.x", "missing.path", "name",
     "name.length", "list.0", "list.2", "list.length", "a..b", ".", "length", "qty.x",
     "constructor", "a.toString", "a.b.constructor.name" >>

TemplateValues ==
  << Str("Hello {{missing.path}}"),
     Str("{{ name }} x{{qty}}"),
     Str("{{boilerplate.blockA}}"),
     Str("{{boilerplate.nope}}"),
     Str("<{{ boilerplate.blockA }}> <{{boilerplate.blockA.default}}>"),
     Str("{{boilerplate.blockA}} for {{name}}"),
     Str("{{a.b}}{{a.c}}{{n}}"),
     Str("{{{name}} {{}} {{ }} {{a}b}}"),
     Str("{{boilerplate}} {{boilerplate.}}"),
     Str("{{list.1}}{{list.length}}{{list}}"),
     Str("plain text"),
     Str(""),
     Num(5),
     Undef >>

BoilerplateValues ==
  << Undef,
     Null,
     EmptyObj,
     Obj("blockA" :> Str("LIB")),
     Obj(("blockA" :> Obj("default" :> Str("LIB"))) @@ ("name" :> Str("LIBNAME"))) >>

---------------------------------------------------------------------------
(* The path resolver on its own *)

InitResolve ==
  /\ \E i \in 1..Len(RootValues) : data = RootValues[i]
  /\ \E i \in 1..Len(PathValues) : path = Str(PathValues[i])
  /\ template = Undef /\ boilerplate = Undef /\ condition = Undef
  /\ item = Undef /\ structure = Undef /\ content = Undef /\ today = ""
  /\ out = NoCalls
  /\ schema = Undef /\ NoForm /\ NoSession

CallGetNestedValue ==
  /\ ~Called("getNestedValue")
  /\ Record("getNestedValue", GetNestedValue(data, path))
  /\ UNCHANGED <<schema, formVars, sessionVars>>
  /\ UNCHANGED <<path, template, data, boilerplate, condition, item, structure,
                 content, today>>

NextResolve == CallGetNestedValue

SpecResolve == InitResolve /\ [][NextResolve]_vars

\* the value reached from root by reading the first k keys as properties:
\* nothing is read from undefined or null
RECURSIVE Reached(_, _, _)
Reached(root, keys, k) ==
  IF k = 0 THEN root
  ELSE LET prev == Reached(root, keys, k - 1)
       IN IF IsNullish(prev) THEN Undef ELSE Prop(prev, keys[k])

Walked(root, p) == Reached(root, Split(p, "."), Len(Split(p, ".")))

\* the value reached from root by the first k keys of the nested mapping: a
\* key the value does not hold gives undefined
RECURSIVE ReachedOwn(_, _, _)
ReachedOwn(root, keys, k) ==
  IF k = 0 THEN root
  ELSE LET prev == ReachedOwn(root, keys, k - 1)
       IN IF IsNullish(prev) THEN Undef ELSE OwnProp(prev, keys[k])

WalkedOwn(root, p) == ReachedOwn(root, Split(p, "."), Len(Split(p, ".")))

\* C7: for every root and every dotted path getNestedValue does not throw and
\* returns the value reached by walking the path's keys in order, undefined as
\* soon as a key is missing or the value is null
C7_WalksKeys ==
  Called("getNestedValue") =>
    /\ ~Threw(out["getNestedValue"])
    /\ SameValue(out["getNestedValue"], WalkedOwn(data, path.v))

\* what getNestedValue does guarantee: it never throws; for a non-empty path it
\* returns the value reached by reading the keys in order as properties, own or
\* inherited, and undefined as soon as an intermediate value is undefined or
\* null; for the empty path it returns undefined; on paths without inherited
\* keys it agrees with the walk over own keys
NestedValueGuarantee ==
  Called("getNestedValue") =>
    /\ ~Threw(out["getNestedValue"])
    /\ path.v # "" => SameValue(out["getNestedValue"], Walked(data, path.v))
    /\ path.v = "" => out["getNestedValue"].t = "undefined"
    /\ (path.v # "" /\ \A k \in 1..Len(Split(path.v, ".")) :
                         Split(path.v, ".")[k] \notin InheritedKeys)
         => SameValue(out["getNestedValue"], WalkedOwn(data, path.v))

\* a three-key walk that ends on a value, and a walk cut short by null
NestedValueWitness ==
  /\ Called("getNestedValue")
  /\ \/ /\ path.v = "a.b.c"
        /\ SameValue(out["getNestedValue"], Bool(FALSE))
     \/ /\ path.v = "n.x"
        /\ data.t = "object" /\ "n" \in DOMAIN data.v
        /\ out["getNestedValue"].t = "undefined"

---------------------------------------------------------------------------
(* The template substitution engine on its own *)

InitRender ==
  /\ \E i \in 1..Len(TemplateValues) : template = TemplateValues[i]
  /\ \E i \in 1..Len(RootValues) : data = RootValues[i]
  /\ \E i \in 1..Len(BoilerplateValues) : boilerplate = BoilerplateValues[i]
  /\ path = Undef /\ condition = Undef
  /\ item = Undef /\ structure = Undef /\ content = Undef /\ today = ""
  /\ out = NoCalls
  /\ schema = Undef /\ NoForm /\ NoSession

CallRenderTemplate ==
  /\ ~Called("renderTemplate")
  /\ Record("renderTemplate", RenderTemplate(template, data, boilerplate))
  /\ UNCHANGED <<schema, formVars, sessionVars>>
  /\ UNCHANGED <<path, template, data, boilerplate, condition, item, structure,
                 content, today>>

NextRender == CallRenderTemplate

SpecRender == InitRender /\ [][NextRender]_vars

\* the placeholders the pattern finds in s, left to right
RECURSIVE PlaceholdersFrom(_, _)
PlaceholdersFrom(s, i) ==
  IF i > Len(s) THEN <<>>
  ELSE LET r == MatchAt(s, i)
       IN IF r = 0 THEN PlaceholdersFrom(s, i + 1)
          ELSE <<[match |-> SubSeq(s, i, i + r + 3),
                  path |-> Trim(SubSeq(s, i + 2, i + r + 1))]>>
               \o PlaceholdersFrom(s, i + r + 4)

Placeholders(tpl) == IF tpl.t = "string" THEN PlaceholdersFrom(tpl.v, 1) ELSE <<>>

IsBoilerplatePath(p) == StartsWith(p, "boilerplate.")

\* what a placeholder's path resolves to: boilerplate.* in the library (the
\* default {} when none is given), anything else in the data record
Resolution(p, d, bp) ==
  IF IsBoilerplatePath(p)
    THEN Walked(IF bp.t = "undefined" THEN EmptyObj ELSE bp, Substring(p, 12))
  ELSE Walked(d, p)

Unresolved(p, d, bp) ==
  \/ p = ""
  \/ IsBoilerplatePath(p) /\ Substring(p, 12) = ""
  \/ Resolution(p, d, bp).t = "undefined"

\* C1: renderTemplate never throws; a placeholder whose path resolves to
\* undefined is in the output exactly as written, and a template all of whose
\* placeholders are unresolved comes back unchanged
C1_PlaceholderPreserved ==
  Called("renderTemplate") =>
    LET r == out["renderTemplate"]
        ph == Placeholders(template)
    IN /\ ~Threw(r)
       /\ template.t # "string" => SameValue(r, template)
       /\ template.t = "string" =>
            /\ r.t = "string"
            /\ \A k \in 1..Len(ph) :
                 Unresolved(ph[k].path, data, boilerplate) => StrIncludes(r.v, ph[k].match)
            /\ (\A k \in 1..Len(ph) : Unresolved(ph[k].path, data, boilerplate))
                 => r.v = template.v

C1_Witness ==
  /\ Called("renderTemplate")
  /\ IsStr(template, "Hello {{missing.path}}")
  /\ Resolution("missing.path", data, boilerplate).t = "undefined"
  /\ IsStr(out["renderTemplate"], "Hello {{missing.path}}")

AllBoilerplate(tpl) ==
  LET ph == Placeholders(tpl)
  IN Len(ph) > 0 /\ \A k \in 1..Len(ph) : IsBoilerplatePath(ph[k].path)

\* C2: the rendering of a template whose placeholders all name boilerplate.*
\* is the same for every data record, and a boilerplate.* placeholder that the
\* library does not resolve stays as written whatever the data record holds
C2_BoilerplateOnly ==
  Called("renderTemplate") =>
    LET r == out["renderTemplate"]
        ph == Placeholders(template)
    IN /\ AllBoilerplate(template) =>
            \A i \in 1..Len(RootValues) :
              SameValue(RenderTemplate(template, RootValues[i], boilerplate), r)
       /\ \A k \in 1..Len(ph) :
            (IsBoilerplatePath(ph[k].path) /\ Unresolved(ph[k].path, EmptyObj, boilerplate))
              => r.t = "string" /\ StrIncludes(r.v, ph[k].match)

\* the data record has its own boilerplate.nope and the library has not
C2_Witness ==
  /\ Called("renderTemplate")
  /\ IsStr(template, "{{boilerplate.nope}}")
  /\ Walked(data, "boilerplate.nope").t = "string"
  /\ IsStr(out["renderTemplate"], "{{boilerplate.nope}}")

---------------------------------------------------------------------------
(* documentGenerator.js: the data record the docx path renders against, and
   the check it makes before it renders a content item *)

\* { ...userData, today: getToday(), formatDate: (date) => formatDate(date) }
EnhancedUserData(userData) ==
  Obj((("today" :> Str(today)) @@ ("formatDate" :> FormatDateFn))
      @@ (IF userData.t = "object" THEN userData.v ELSE [k \in {} |-> Undef]))

\* !e, when evaluateCondition returned e
Negated(e) == IF Threw(e) THEN e ELSE Bool(~e.v)

\* condition && !evaluateCondition(condition, userData)
SkippedWhen(c, userData) ==
  IF ~Truthy(c) THEN Bool(FALSE) ELSE Negated(EvaluateCondition(c, userData))

\* item.condition && !evaluateCondition(item.condition, userData)
ItemSkipped(it, userData) == SkippedWhen(Field(it, "condition"), userData)

---------------------------------------------------------------------------
(* documentGenerator.js: the docx path.  A sequence of table rows or of
   document elements is carried as [t |-> "list", v |-> <<...>>], so that a
   computation can yield a TypeError in its place. *)

List(seq) == [t |-> "list", v |-> seq]

\* a || b
Or(a, b) == IF Truthy(a) THEN a ELSE b

\* what for (const x of value) iterates over: the elements of an array, the
\* characters of a string; any other JSON value is not iterable
Iterated(x) ==
  CASE x.t = "array" -> List(x.v)
    [] x.t = "string" -> List([i \in 1..Len(x.v) |-> Str(Char(x.v, i))])
    [] OTHER -> TypeError

\* new TableCell({ children: [new Paragraph({ text, bold })] })
Cell(text, bold) == [text |-> text, bold |-> bold]

\* new TableRow({ children: cells, tableHeader })
Row(cells, tableHeader) == [cells |-> cells, tableHeader |-> tableHeader]

\* item.headers.map(header => new TableCell(... String(header) ...))
HeaderRow(headers) ==
  IF ~Truthy(headers) THEN List(<<>>)
  ELSE IF headers.t # "array" THEN TypeError
  ELSE List(<<Row([i \in 1..Len(headers.v) |-> Cell(StringOf(headers.v[i]), TRUE)], TRUE)>>)

\* createTable: the header row, if (item.headers)
HeaderRows(it) == HeaderRow(Field(it, "headers"))

\* item.loop.replace(/[{}#/]/g, '').trim()
LoopPath(loop) == Trim(RemoveChars(loop.v, {"{", "}", "#", "/"}))

\* templates.map(template => new TableCell(... String(renderTemplate(...)) ...))
TemplateCells(templates, rowData, blocks) ==
  IF templates.t # "array" THEN TypeError
  ELSE IF Len(templates.v) > 0 /\ Threw(blocks) THEN TypeError
  ELSE List([j \in 1..Len(templates.v) |->
               Cell(StringOf(RenderTemplate(templates.v[j], rowData, blocks)), FALSE)])

\* the cells of one loop row: (item.rows || []).map(template => ...)
LoopCells(it, rowData, contentJson) ==
  TemplateCells(Or(Field(it, "rows"), Arr(<<>>)), rowData, Field(contentJson, "blocks"))

\* rows.push(new TableRow({ children: cells })) for each list of cells
RowsOf(cells) ==
  IF \E i \in 1..Len(cells) : Threw(cells[i]) THEN TypeError
  ELSE List([i \in 1..Len(cells) |-> Row(cells[i].v, FALSE)])

\* every row template rendered against the whole record, once per element
RowsOverTopLevel(dataArray, it, userData, contentJson) ==
  IF dataArray.t = "array" /\ Len(dataArray.v) > 0
    THEN RowsOf([i \in 1..Len(dataArray.v) |-> LoopCells(it, userData, contentJson)])
  ELSE List(<<>>)

\* the loop rows with every row template rendered against the whole record
LoopRowsTopLevel(it, userData, contentJson) ==
  IF Field(it, "loop").t # "string" THEN TypeError
  ELSE RowsOverTopLevel(GetNestedValue(userData, Str(LoopPath(Field(it, "loop")))),
                        it, userData, contentJson)

\* if (Array.isArray(dataArray) && dataArray.length > 0) for (const rowData of dataArray)
RowsOver(dataArray, it, contentJson) ==
  IF dataArray.t = "array" /\ Len(dataArray.v) > 0
    THEN RowsOf([i \in 1..Len(dataArray.v) |-> LoopCells(it, dataArray.v[i], contentJson)])
  ELSE List(<<>>)

\* createTable, if (item.loop): one row per element of the array at the path
LoopRows(it, userData, contentJson) ==
  IF Field(it, "loop").t # "string" THEN TypeError
  ELSE RowsOver(GetNestedValue(userData, Str(LoopPath(Field(it, "loop")))), it, contentJson)

\* item.source.replace(/[{}]/g, '').trim()
SourcePath(source) == Trim(RemoveChars(source.v, {"{", "}"}))

\* rowData.map(cellValue => new TableCell(... String(cellValue) ...))
VerbatimCells(rowData) ==
  IF rowData.t # "array" THEN TypeError
  ELSE List([j \in 1..Len(rowData.v) |-> Cell(StringOf(rowData.v[j]), FALSE)])

\* for (const rowData of tableData.defaultRows)
VerbatimRows(defaultRows) ==
  IF Threw(defaultRows) THEN TypeError
  ELSE RowsOf([i \in 1..Len(defaultRows.v) |-> VerbatimCells(defaultRows.v[i])])

\* if (tableData.defaultRows)
DefaultRows(defaultRows) ==
  IF ~Truthy(defaultRows) THEN List(<<>>) ELSE VerbatimRows(Iterated(defaultRows))

\* if (tableData && tableData.defaultRows)
TableDataRows(tableData) ==
  IF ~Truthy(tableData) THEN List(<<>>) ELSE DefaultRows(Field(tableData, "defaultRows"))

\* createTable, else if (item.source): the defaultRows of the library table
SourceRows(it, contentJson) ==
  IF Field(it, "source").t # "string" THEN TypeError
  ELSE TableDataRows(GetNestedValue(contentJson, Str(SourcePath(Field(it, "source")))))

\* a || b || ''
TextOf(a, b) == Or(Or(a, b), Str(""))

\* one cell of an inline row: cellDef.template || cellDef.text || ''
StaticCell(cellDef, userData, blocks) ==
  Cell(StringOf(RenderTemplate(TextOf(Field(cellDef, "template"), Field(cellDef, "text")),
                               userData, blocks)),
       Truthy(Field(cellDef, "bold")))

\* rowDef.map(cellDef => ...)
StaticCells(rowDef, userData, blocks) ==
  IF rowDef.t # "array" THEN TypeError
  ELSE IF \E j \in 1..Len(rowDef.v) : IsNullish(rowDef.v[j]) THEN TypeError
  ELSE IF Len(rowDef.v) > 0 /\ Threw(blocks) THEN TypeError
  ELSE List([j \in 1..Len(rowDef.v) |-> StaticCell(rowDef.v[j], userData, blocks)])

\* for (const rowDef of item.rows)
InlineRows(rows, userData, blocks) ==
  IF Threw(rows) THEN TypeError
  ELSE RowsOf([i \in 1..Len(rows.v) |-> StaticCells(rows.v[i], userData, blocks)])

\* createTable, else if (item.rows): the inline rows
StaticRows(it, userData, contentJson) ==
  InlineRows(Iterated(Field(it, "rows")), userData, Field(contentJson, "blocks"))

\* the length Array(columnCount) gets
ArrayLength(columnCount) == IF columnCount.t = "number" THEN columnCount.v ELSE 1

\* item.headers?.length || 3
ColumnCount(it) == ArrayLength(Or(OptField(Field(it, "headers"), "length"), Num(3)))

\* how often a loop from 0 runs while i < x
Times(x) == IF x.nan \/ x.n <= 0 THEN 0 ELSE x.n

\* the number of times for (let i = 0; i < n; i++) runs its body
LoopCount(n) == Times(ToNumber(n))

\* createTable, else if (item.emptyRows): rows of empty cells
EmptyRows(it) ==
  List([i \in 1..LoopCount(Field(it, "emptyRows")) |->
          Row([j \in 1..ColumnCount(it) |-> Cell("", FALSE)], FALSE)])

\* createTable: the if / else if chain over loop, source, rows, emptyRows
BodyRows(it, userData, contentJson) ==
  IF Truthy(Field(it, "loop")) THEN LoopRows(it, userData, contentJson)
  ELSE IF Truthy(Field(it, "source")) THEN SourceRows(it, contentJson)
  ELSE IF Truthy(Field(it, "rows")) THEN StaticRows(it, userData, contentJson)
  ELSE IF Truthy(Field(it, "emptyRows")) THEN EmptyRows(it)
  ELSE List(<<>>)

\* if (rows.length === 0) return null; return new Table({ rows, ..., borders })
TableOf(header, body, borders) ==
  IF Threw(header) THEN header
  ELSE IF Threw(body) THEN body
  ELSE IF Len(header.v \o body.v) = 0 THEN Null
  ELSE [t |-> "Table", rows |-> header.v \o body.v, borders |-> ~IsFalseValue(borders)]

\* createTable(item, userData, contentJson): the table, or null without rows
CreateTable(it, userData, contentJson) ==
  TableOf(HeaderRows(it), BodyRows(it, userData, contentJson), Field(it, "borders"))

UpperCase == "ABCDEFGHIJKLMNOPQRSTUVWXYZ"
LowerCase == "abcdefghijklmnopqrstuvwxyz"

\* the lower-case form of one character
LowerOf(c) ==
  IF \E i \in 1..26 : Char(UpperCase, i) = c
    THEN Char(LowerCase, CHOOSE i \in 1..26 : Char(UpperCase, i) = c)
  ELSE c

\* String.prototype.toLowerCase
RECURSIVE ToLowerCase(_)
ToLowerCase(s) ==
  IF s = "" THEN "" ELSE LowerOf(Char(s, 1)) \o ToLowerCase(SubSeq(s, 2, Len(s)))

\* getAlignment: const alignmentMap = { ... }
AlignmentMap ==
  [k \in {"left", "center", "right", "justified"} |->
     CASE k = "left" -> "LEFT"
       [] k = "center" -> "CENTER"
       [] k = "right" -> "RIGHT"
       [] OTHER -> "JUSTIFIED"]

\* alignmentMap[name] || AlignmentType.LEFT
AlignmentOf(name) == IF name \in DOMAIN AlignmentMap THEN AlignmentMap[name] ELSE "LEFT"

\* getAlignment(alignment): alignmentMap[alignment?.toLowerCase()] || LEFT
GetAlignment(alignment) ==
  IF IsNullish(alignment) THEN "LEFT"
  ELSE IF alignment.t # "string" THEN "TypeError"
  ELSE AlignmentOf(ToLowerCase(alignment.v))

\* what a call returns: the docx elements it made and what it wrote to the console
Elements(seq, console) == [t |-> "list", v |-> seq, console |-> console]

NoElements == Elements(<<>>, <<>>)

\* elements.push(...subElements), call after call
RECURSIVE Pushed(_)
Pushed(results) ==
  IF results = <<>> THEN NoElements
  ELSE Elements(Head(results).v \o Pushed(Tail(results)).v,
                Head(results).console \o Pushed(Tail(results)).console)

\* the elements of a sequence of calls, unless one of them threw
ConcatElements(results) ==
  IF \E i \in 1..Len(results) : Threw(results[i]) THEN TypeError ELSE Pushed(results)

\* case 'paragraph': new Paragraph({ text, alignment: getAlignment(item.alignment) })
ParagraphElements(tpl, alignment, userData, blocks) ==
  IF Threw(blocks) \/ alignment = "TypeError" THEN TypeError
  ELSE Elements(<<[t |-> "Paragraph", text |-> RenderTemplate(tpl, userData, blocks),
                   alignment |-> alignment]>>, <<>>)

\* case 'table': if (table) elements.push(table)
TableElements(table) ==
  IF Threw(table) THEN table
  ELSE IF table.t = "null" THEN NoElements
  ELSE Elements(<<table>>, <<>>)

\* default: console.warn(`Unknown content type: ${item.type}`), but it aborts
UnknownTypeAborts(type) == TypeError

\* default: console.warn(`Unknown content type: ${item.type}`); no element
UnknownType(type) == Elements(<<>>, <<"Unknown content type: " \o StringOf(type)>>)

RECURSIVE ProcessContentItem(_, _, _)
RECURSIVE SubElements(_, _, _)
RECURSIVE ConditionalElements(_, _, _, _)
RECURSIVE ProcessByType(_, _, _, _)

\* for (const subItem of item.content || []) processContentItem(subItem, ...)
SubElements(subItems, userData, contentJson) ==
  IF Threw(subItems) THEN TypeError
  ELSE ConcatElements([i \in 1..Len(subItems.v) |->
                         ProcessContentItem(subItems.v[i], userData, contentJson)])

\* case 'conditional': if (evaluateCondition(item.condition, userData))
ConditionalElements(e, subItems, userData, contentJson) ==
  IF Threw(e) THEN e
  ELSE IF ~e.v THEN NoElements
  ELSE SubElements(Iterated(subItems), userData, contentJson)

\* switch (item.type)
ProcessByType(type, it, userData, contentJson) ==
  CASE IsStr(type, "paragraph") ->
         ParagraphElements(TextOf(Field(it, "template"), Field(it, "text")),
                           GetAlignment(Field(it, "alignment")), userData,
                           Field(contentJson, "blocks"))
    [] IsStr(type, "table") -> TableElements(CreateTable(it, userData, contentJson))
    [] IsStr(type, "conditional") ->
         ConditionalElements(EvaluateCondition(Field(it, "condition"), userData),
                             Or(Field(it, "content"), Arr(<<>>)), userData, contentJson)
    [] OTHER -> UnknownType(type)

\* processContentItem(item, userData, contentJson)
ProcessContentItem(it, userData, contentJson) ==
  IF IsNullish(it) THEN TypeError
  ELSE ProcessByType(Field(it, "type"), it, userData, contentJson)

\* if (section.heading): the heading paragraph
HeadingElements(heading, enhancedUserData, blocks) ==
  IF ~Truthy(heading) THEN NoElements
  ELSE IF Threw(blocks) THEN TypeError
  ELSE Elements(<<[t |-> "Paragraph",
                   text |-> RenderTemplate(Field(heading, "text"), enhancedUserData, blocks),
                   heading |-> "HEADING_" \o StringOf(Or(Field(heading, "level"), Num(1)))]>>,
                <<>>)

\* continue when the item is skipped, processContentItem otherwise
UnlessSkipped(skipped, it, enhancedUserData, contentJson) ==
  IF Threw(skipped) THEN skipped
  ELSE IF skipped.v THEN NoElements
  ELSE ProcessContentItem(it, enhancedUserData, contentJson)

\* the body of for (const item of section.content)
ItemElements(it, enhancedUserData, contentJson) ==
  IF IsNullish(it) THEN TypeError
  ELSE UnlessSkipped(ItemSkipped(it, enhancedUserData), it, enhancedUserData, contentJson)

\* for (const item of section.content)
ItemsElements(items, enhancedUserData, contentJson) ==
  IF Threw(items) THEN TypeError
  ELSE ConcatElements([i \in 1..Len(items.v) |->
                         ItemElements(items.v[i], enhancedUserData, contentJson)])

\* if (section.content)
ContentElements(sectionContent, enhancedUserData, contentJson) ==
  IF ~Truthy(sectionContent) THEN NoElements
  ELSE ItemsElements(Iterated(sectionContent), enhancedUserData, contentJson)

\* the body of the for (const section of structureJson.sections) loop of
\* generateFromStructure: the children of the section and the console output
SectionChildren(section, enhancedUserData, contentJson) ==
  ConcatElements(<<HeadingElements(Field(section, "heading"), enhancedUserData,
                                   Field(contentJson, "blocks")),
                   ContentElements(Field(section, "content"), enhancedUserData,
                                   contentJson)>>)

\* section.type === 'header' || section.type === 'footer'
TypeIsHeaderOrFooter(type) == IsStr(type, "header") \/ IsStr(type, "footer")

IsHeaderOrFooter(section) == TypeIsHeaderOrFooter(Field(section, "type"))

\* the indices of the sections the loops do not skip, in order
RECURSIVE KeptFrom(_, _)
KeptFrom(sections, i) ==
  IF i > Len(sections) THEN <<>>
  ELSE (IF IsHeaderOrFooter(sections[i]) THEN <<>> ELSE <<i>>) \o KeptFrom(sections, i + 1)

\* an Error thrown with a message
Error(message) == [t |-> "Error", message |-> message]

\* new Document({ sections: docSections.length > 0 ? docSections : [...] })
DocumentOf(children) ==
  IF \E k \in 1..Len(children) : Threw(children[k]) THEN TypeError
  ELSE [t |-> "Document",
        sections |->
          IF Len(children) > 0
            THEN [k \in 1..Len(children) |-> [children |-> children[k].v]]
          ELSE <<[children |-> <<[t |-> "Paragraph", text |-> Str("Empty document")]>>]>>,
        console |-> Pushed(children).console]

\* the children of the sections that are kept
KeptChildren(kept, sections, enhancedUserData, contentJson) ==
  [k \in 1..Len(kept) |-> SectionChildren(sections[kept[k]], enhancedUserData, contentJson)]

\* for (const section of structureJson.sections)
SectionsDocument(sections, enhancedUserData, contentJson) ==
  IF Threw(sections) THEN TypeError
  ELSE IF \E i \in 1..Len(sections.v) : IsNullish(sections.v[i]) THEN TypeError
  ELSE DocumentOf(KeptChildren(KeptFrom(sections.v, 1), sections.v, enhancedUserData,
                               contentJson))

\* generateFromStructure after !structureJson is excluded
StructureDocument(sections, userData, contentJson) ==
  IF ~Truthy(sections) THEN Error("Invalid structure JSON")
  ELSE SectionsDocument(Iterated(sections), EnhancedUserData(userData), contentJson)

\* generateFromStructure(structureJson, userData, contentJson): the Document
\* handed to Packer.toBuffer, or what is thrown
GenerateFromStructure(structureJson, userData, contentJson) ==
  IF ~Truthy(structureJson) THEN Error("Invalid structure JSON")
  ELSE StructureDocument(Field(structureJson, "sections"), userData, contentJson)

\* catch (error) { throw new Error(`Failed to generate document: ${error.message}`) }
Rethrown(r) ==
  IF r.t = "Error" THEN Error("Failed to generate document: " \o r.message)
  ELSE IF Threw(r) THEN Error("Failed to generate document: TypeError")
  ELSE r

\* generateDocument(template, userData) without a .docx template buffer: what
\* generateFromStructure throws is rethrown as "Failed to generate document"
GenerateDocument(templateRow, userData) ==
  Rethrown(IF IsNullish(templateRow) THEN TypeError
           ELSE GenerateFromStructure(Field(templateRow, "structure_json"), userData,
                                      Field(templateRow, "content_json")))

---------------------------------------------------------------------------
(* documentGenerator.js: the HTML preview.  The string is kept as the
   sequence of the pieces appended to it, [t |-> "list", v |-> pieces]. *)

\* the replacement of one character by escapeHtml's map
Escaped(c) ==
  CASE c = "&" -> "&amp;"
    [] c = "<" -> "&lt;"
    [] c = ">" -> "&gt;"
    [] c = "\"" -> "&quot;"
    [] c = "'" -> "&#039;"
    [] OTHER -> c

\* s.replace(/[&<>"']/g, (char) => map[char])
RECURSIVE EscapeString(_)
EscapeString(s) ==
  IF s = "" THEN "" ELSE Escaped(Char(s, 1)) \o EscapeString(SubSeq(s, 2, Len(s)))

\* escapeHtml(text)
EscapeHtml(text) == EscapeString(StringOf(text))

RECURSIVE Flatten(_)
Flatten(seqs) == IF seqs = <<>> THEN <<>> ELSE Head(seqs) \o Flatten(Tail(seqs))

\* the pieces of a sequence of parts, unless one of them threw
Appended(parts) ==
  IF \E i \in 1..Len(parts) : Threw(parts[i]) THEN TypeError
  ELSE List(Flatten([i \in 1..Len(parts) |-> parts[i].v]))

TableOpen == "<table border=\"1\" style=\"border-collapse: collapse; width: 100%;\">"
ThOpen == "<th style=\"background-color: #ccc; padding: 8px;\">"
TdOpen == "<td style=\"padding: 8px;\">"
EmptyTd == "<td style=\"padding: 8px;\">&nbsp;</td>"

\* item.headers.forEach(header => tableHtml += <th>escapeHtml(header)</th>)
HtmlHeaderRow(headers) ==
  IF ~Truthy(headers) THEN List(<<>>)
  ELSE IF headers.t # "array" THEN TypeError
  ELSE List(<<"<thead><tr>">>
            \o [i \in 1..Len(headers.v) |-> ThOpen \o EscapeHtml(headers.v[i]) \o "</th>"]
            \o <<"</tr></thead>">>)

\* renderHtmlContentItem, case 'table': if (item.headers)
HtmlHeader(it) == HtmlHeaderRow(Field(it, "headers"))

\* templates.forEach(template => tableHtml += <td>escapeHtml(renderTemplate(...))</td>)
HtmlTemplateCells(templates, rowData, blocks) ==
  IF templates.t # "array" THEN TypeError
  ELSE IF Len(templates.v) > 0 /\ Threw(blocks) THEN TypeError
  ELSE List(<<"<tr>">>
            \o [j \in 1..Len(templates.v) |->
                  TdOpen \o EscapeHtml(RenderTemplate(templates.v[j], rowData, blocks))
                  \o "</td>"]
            \o <<"</tr>">>)

\* one <tr> of the loop: (item.rows || []).forEach(template => ...)
HtmlLoopRow(it, rowData, contentJson) ==
  HtmlTemplateCells(Or(Field(it, "rows"), Arr(<<>>)), rowData, Field(contentJson, "blocks"))

\* if (Array.isArray(dataArray)) dataArray.forEach(rowData => ...)
HtmlRowsOver(dataArray, it, contentJson) ==
  IF dataArray.t = "array"
    THEN Appended([i \in 1..Len(dataArray.v) |-> HtmlLoopRow(it, dataArray.v[i], contentJson)])
  ELSE List(<<>>)

\* every row template rendered against the whole record, once per element
HtmlRowsOverTopLevel(dataArray, it, userData, contentJson) ==
  IF dataArray.t = "array"
    THEN Appended([i \in 1..Len(dataArray.v) |-> HtmlLoopRow(it, userData, contentJson)])
  ELSE List(<<>>)

\* the loop rows of the preview with every row template rendered against the
\* whole record
HtmlLoopRowsTopLevel(it, userData, contentJson) ==
  IF Field(it, "loop").t # "string" THEN TypeError
  ELSE HtmlRowsOverTopLevel(GetNestedValue(userData, Str(LoopPath(Field(it, "loop")))), it,
                            userData, contentJson)

\* renderHtmlContentItem, case 'table': if (item.loop)
HtmlLoopRows(it, userData, contentJson) ==
  IF Field(it, "loop").t # "string" THEN TypeError
  ELSE HtmlRowsOver(GetNestedValue(userData, Str(LoopPath(Field(it, "loop")))), it,
                    contentJson)

\* one empty <tr>: for (let j = 0; j < columnCount; j++)
HtmlEmptyRow(columnCount) ==
  <<"<tr>">> \o [j \in 1..LoopCount(columnCount) |-> EmptyTd] \o <<"</tr>">>

\* renderHtmlContentItem, case 'table': else if (item.emptyRows)
HtmlEmptyRows(it) ==
  List(Flatten([i \in 1..LoopCount(Field(it, "emptyRows")) |->
                  HtmlEmptyRow(Or(OptField(Field(it, "headers"), "length"), Num(3)))]))

\* renderHtmlContentItem, case 'table': the if / else if chain
HtmlBody(it, userData, contentJson) ==
  IF Truthy(Field(it, "loop")) THEN HtmlLoopRows(it, userData, contentJson)
  ELSE IF Truthy(Field(it, "emptyRows")) THEN HtmlEmptyRows(it)
  ELSE List(<<>>)

\* renderHtmlContentItem, case 'table'
HtmlTable(it, userData, contentJson) ==
  Appended(<<List(<<TableOpen>>), HtmlHeader(it), List(<<"<tbody>">>),
             HtmlBody(it, userData, contentJson), List(<<"</tbody></table>">>)>>)

\* case 'paragraph': <p>escapeHtml(renderTemplate(...))</p>
HtmlParagraph(tpl, userData, blocks) ==
  IF Threw(blocks) THEN TypeError
  ELSE List(<<"<p>" \o EscapeHtml(RenderTemplate(tpl, userData, blocks)) \o "</p>">>)

RECURSIVE RenderHtmlContentItem(_, _, _)
RECURSIVE HtmlSubItems(_, _, _)
RECURSIVE HtmlConditional(_, _, _, _)
RECURSIVE RenderHtmlByType(_, _, _, _)

\* (item.content || []).forEach(subItem => html += renderHtmlContentItem(...))
HtmlSubItems(subItems, userData, contentJson) ==
  IF subItems.t # "array" THEN TypeError
  ELSE Appended([i \in 1..Len(subItems.v) |->
                   RenderHtmlContentItem(subItems.v[i], userData, contentJson)])

\* case 'conditional': if (evaluateCondition(item.condition, userData))
HtmlConditional(e, subItems, userData, contentJson) ==
  IF Threw(e) THEN e
  ELSE IF ~e.v THEN List(<<>>)
  ELSE HtmlSubItems(subItems, userData, contentJson)

\* switch (item.type)
RenderHtmlByType(type, it, userData, contentJson) ==
  CASE IsStr(type, "paragraph") ->
         HtmlParagraph(TextOf(Field(it, "template"), Field(it, "text")), userData,
                       Field(contentJson, "blocks"))
    [] IsStr(type, "table") -> HtmlTable(it, userData, contentJson)
    [] IsStr(type, "conditional") ->
         HtmlConditional(EvaluateCondition(Field(it, "condition"), userData),
                         Or(Field(it, "content"), Arr(<<>>)), userData, contentJson)
    [] OTHER -> List(<<>>)

\* renderHtmlContentItem(item, userData, contentJson)
RenderHtmlContentItem(it, userData, contentJson) ==
  IF IsNullish(it) THEN TypeError
  ELSE RenderHtmlByType(Field(it, "type"), it, userData, contentJson)

\* <hN>escapeHtml(headingText)</hN>, N = section.heading.level || 1
HtmlHeadingOf(level, text) == List(<<"<h" \o level \o ">" \o text \o "</h" \o level \o ">">>)

\* if (section.heading)
HtmlHeading(heading, userData, blocks) ==
  IF ~Truthy(heading) THEN List(<<>>)
  ELSE IF Threw(blocks) THEN TypeError
  ELSE HtmlHeadingOf(StringOf(Or(Field(heading, "level"), Num(1))),
                     EscapeHtml(RenderTemplate(Field(heading, "text"), userData, blocks)))

\* continue when the item is skipped, renderHtmlContentItem otherwise
HtmlUnlessSkipped(skipped, it, userData, contentJson) ==
  IF Threw(skipped) THEN skipped
  ELSE IF skipped.v THEN List(<<>>)
  ELSE RenderHtmlContentItem(it, userData, contentJson)

\* the body of for (const item of section.content)
HtmlItem(it, userData, contentJson) ==
  IF IsNullish(it) THEN TypeError
  ELSE HtmlUnlessSkipped(ItemSkipped(it, userData), it, userData, contentJson)

\* for (const item of section.content)
HtmlItems(items, userData, contentJson) ==
  IF Threw(items) THEN TypeError
  ELSE Appended([i \in 1..Len(items.v) |-> HtmlItem(items.v[i], userData, contentJson)])

\* if (section.content)
HtmlContent(sectionContent, userData, contentJson) ==
  IF ~Truthy(sectionContent) THEN List(<<>>)
  ELSE HtmlItems(Iterated(sectionContent), userData, contentJson)

\* the body of the for (const section of structureJson.sections || []) loop
\* of generateHtmlPreview
HtmlSection(section, userData, contentJson) ==
  Appended(<<List(<<"<section>">>),
             HtmlHeading(Field(section, "heading"), userData, Field(contentJson, "blocks")),
             HtmlContent(Field(section, "content"), userData, contentJson),
             List(<<"</section>">>)>>)

\* the sections that are kept, one after the other
HtmlKept(kept, sections, userData, contentJson) ==
  Appended([k \in 1..Len(kept) |-> HtmlSection(sections[kept[k]], userData, contentJson)])

\* for (const section of structureJson.sections || [])
HtmlSections(sections, userData, contentJson) ==
  IF Threw(sections) THEN TypeError
  ELSE IF \E i \in 1..Len(sections.v) : IsNullish(sections.v[i]) THEN TypeError
  ELSE Appended(<<List(<<"<div class=\"document-preview\">">>),
                  HtmlKept(KeptFrom(sections.v, 1), sections.v, userData, contentJson),
                  List(<<"</div>">>)>>)

\* catch (error) { return '<p>Preview generation failed</p>' }
Caught(html) == IF Threw(html) THEN List(<<"<p>Preview generation failed</p>">>) ELSE html

\* generateHtmlPreview(structureJson, userData, contentJson): whatever is thrown
\* inside is caught and answered with the failure paragraph
GenerateHtmlPreview(structureJson, userData, contentJson) ==
  Caught(IF IsNullish(structureJson) THEN TypeError
         ELSE HtmlSections(Iterated(Or(Field(structureJson, "sections"), Arr(<<>>))),
                           userData, contentJson))

---------------------------------------------------------------------------
(* The condition evaluator at its call sites *)

\* an object with the given keys; a key whose value is undefined is absent
ObjOf(f) == Obj([k \in {j \in DOMAIN f : f[j].t # "undefined"} |-> f[k]])

ConditionFields ==
  << Undef, Str(""), Str("n"), Str("s"), Str("tags"), Str("flag"), Str("a.b"),
     Str("missing") >>

ConditionOperators ==
  << Str("equals"), Str("not_equals"), Str("contains"), Str("not_contains"),
     Str("greater_than"), Str("less_than"), Str("bogus"), Undef >>

ConditionValues ==
  << Num(10), Num(2), Str("x"), Str("def"), Str("5"), Bool(TRUE), Undef >>

FormDataValues ==
  << EmptyObj,
     Obj(("n" :> Num(5)) @@ ("s" :> Str("xyz")) @@ ("tags" :> Arr(<<Str("x"), Str("y")>>))
         @@ ("flag" :> Bool(FALSE)) @@ ("a" :> Obj("b" :> Str("x")))),
     Obj(("n" :> Num(10)) @@ ("s" :> Str("x")) @@ ("tags" :> Arr(<<>>))
         @@ ("flag" :> Bool(TRUE)) @@ ("a.b" :> Str("x"))),
     Obj(("n" :> Str("12")) @@ ("s" :> Str("")) @@ ("tags" :> Str("x,y"))
         @@ ("flag" :> Null) @@ ("a" :> Null)) >>

InitCondition ==
  /\ \/ condition \in {Undef, Null}
     \/ \E f \in 1..Len(ConditionFields), o \in 1..Len(ConditionOperators),
           v \in 1..Len(ConditionValues) :
          condition = ObjOf(("field" :> ConditionFields[f])
                            @@ ("operator" :> ConditionOperators[o])
                            @@ ("value" :> ConditionValues[v]))
  /\ \E i \in 1..Len(FormDataValues) : data = FormDataValues[i]
  /\ today = "2026-11-05"
  /\ path = Undef /\ template = Undef /\ boilerplate = Undef
  /\ item = Undef /\ structure = Undef /\ content = Undef
  /\ out = NoCalls
  /\ schema = Undef /\ NoForm /\ NoSession

\* the schema field and the content item that carry the condition
FieldWith(c) == ObjOf(("id" :> Str("f")) @@ ("type" :> Str("text"))
                      @@ ("conditional" :> ObjOf("show_when" :> c)))

ItemWith(c) == ObjOf(("type" :> Str("paragraph")) @@ ("template" :> Str("text"))
                     @@ ("condition" :> c))

CallEvaluateCondition ==
  /\ ~Called("evaluateCondition")
  /\ Record("evaluateCondition", EvaluateCondition(condition, data))
  /\ UNCHANGED <<schema, formVars, sessionVars>>
  /\ UNCHANGED <<path, template, data, boilerplate, condition, item, structure,
                 content, today>>

CallIsFieldVisible ==
  /\ ~Called("isFieldVisible")
  /\ Record("isFieldVisible", IsFieldVisible(FieldWith(condition), data))
  /\ UNCHANGED <<schema, formVars, sessionVars>>
  /\ UNCHANGED <<path, template, data, boilerplate, condition, item, structure,
                 content, today>>

\* FormRenderer renders the field when evaluateConditional(field.conditional)
FormRenderField ==
  /\ ~Called("evaluateConditional")
  /\ Record("evaluateConditional",
            EvaluateConditional(Field(FieldWith(condition), "conditional"), data))
  /\ UNCHANGED <<schema, formVars, sessionVars>>
  /\ UNCHANGED <<path, template, data, boilerplate, condition, item, structure,
                 content, today>>

\* generateFromStructure renders the item unless it is skipped
DocxCheckItem ==
  /\ ~Called("docxItemRendered")
  /\ Record("docxItemRendered",
            LET k == ItemSkipped(ItemWith(condition), EnhancedUserData(data))
            IN IF Threw(k) THEN k ELSE Bool(~k.v))
  /\ UNCHANGED <<schema, formVars, sessionVars>>
  /\ UNCHANGED <<path, template, data, boilerplate, condition, item, structure,
                 content, today>>

\* generateHtmlPreview renders the item unless it is skipped
PreviewCheckItem ==
  /\ ~Called("previewItemRendered")
  /\ Record("previewItemRendered",
            LET k == ItemSkipped(ItemWith(condition), data)
            IN IF Threw(k) THEN k ELSE Bool(~k.v))
  /\ UNCHANGED <<schema, formVars, sessionVars>>
  /\ UNCHANGED <<path, template, data, boilerplate, condition, item, structure,
                 content, today>>

NextCondition ==
  \/ CallEvaluateCondition
  \/ CallIsFieldVisible
  \/ FormRenderField
  \/ DocxCheckItem
  \/ PreviewCheckItem

SpecCondition == InitCondition /\ [][NextCondition]_vars

IsTrue(x) == x.t = "boolean" /\ x.v

IsFalse(x) == x.t = "boolean" /\ ~x.v

ConditionHasField == Truthy(condition) /\ Truthy(Field(condition, "field"))

\* C4: for every condition and data record the form's evaluateConditional,
\* evaluateCondition / isFieldVisible and the assembler's item check give the
\* same boolean
C4_CallSitesAgree ==
  (/\ ConditionHasField
   /\ Field(condition, "field").t = "string"
   /\ Field(condition, "operator").t = "string"
   /\ Field(condition, "value").t # "undefined"
   /\ Called("evaluateCondition") /\ Called("isFieldVisible")
   /\ Called("evaluateConditional") /\ Called("docxItemRendered")
   /\ Called("previewItemRendered")) =>
    /\ SameValue(out["evaluateCondition"], out["isFieldVisible"])
    /\ SameValue(out["evaluateCondition"], out["evaluateConditional"])
    /\ SameValue(out["evaluateCondition"], out["docxItemRendered"])
    /\ SameValue(out["evaluateCondition"], out["previewItemRendered"])

\* C5: evaluateCondition answers true when the condition is absent, has no
\* target field, or names an operator outside the six supported ones
C5_FailOpen ==
  (/\ Called("evaluateCondition")
   /\ \/ ~ConditionHasField
      \/ ~IsKnownOperator(Field(condition, "operator")))
    => IsTrue(out["evaluateCondition"])

\* an unknown operator on a field that the data record holds
C5_Witness ==
  /\ Called("evaluateCondition")
  /\ ConditionHasField
  /\ IsStr(Field(condition, "operator"), "bogus")
  /\ Walked(data, Field(condition, "field").v).t # "undefined"
  /\ IsTrue(out["evaluateCondition"])

\* C6: when the condition's field path resolves to nothing in the data record,
\* each of the six operators answers false, without throwing, in
\* evaluateCondition and in the form's evaluateConditional
C6_MissingFieldNotSatisfied ==
  (/\ ConditionHasField
   /\ IsKnownOperator(Field(condition, "operator"))
   /\ Walked(data, Field(condition, "field").v).t = "undefined")
    => /\ Called("evaluateCondition") => IsFalse(out["evaluateCondition"])
       /\ Called("evaluateConditional") => IsFalse(out["evaluateConditional"])

---------------------------------------------------------------------------
(* The table expansion engine on its own *)

MaxRows == 3
MaxEmptyRows == 2

\* element i of the list a loop table runs over
Element(i) ==
  CASE i = 1 -> Obj(("name" :> Str("bolt")) @@ ("qty" :> Num(2)))
    [] i = 2 -> Obj("name" :> Str("a<b"))
    [] i = 3 -> Null
    [] OTHER -> Obj(("name" :> Str("item" \o NumToString(i))) @@ ("qty" :> Num(i)))

\* a data record whose list holds n elements
TableData(n) ==
  Obj(("items" :> Arr([i \in 1..n |-> Element(i)]))
      @@ ("name" :> Str("TOP")) @@ ("qty" :> Num(99)) @@ ("site" :> Str("HQ")))

TableHeaders ==
  << Undef, Arr(<<Str("Name"), Str("Qty")>>), Arr(<<>>), Arr(<<Str("A&B")>>) >>

TableLoops ==
  << Undef, Str("items"), Str("{{#items}}"), Str("missing"), Str("name") >>

TableRowDefs ==
  << Undef,
     Arr(<<Str("{{name}}"), Str("{{qty}} {{boilerplate.unit}}")>>),
     Arr(<<Str("{{site}}")>>),
     Arr(<<Arr(<<Obj("template" :> Str("{{name}}")),
                 Obj(("text" :> Str("fixed")) @@ ("bold" :> Bool(TRUE)))>>)>>),
     Arr(<<>>) >>

TableSources ==
  << Undef, Str("tables.risks"), Str("{{tables.none}}") >>

TableContent ==
  Obj(("blocks" :> Obj("unit" :> Str("pcs")))
      @@ ("tables" :>
            Obj("risks" :>
                  Obj(("headers" :> Arr(<<Str("Risk"), Str("Level")>>))
                      @@ ("defaultRows" :>
                            Arr(<<Arr(<<Str("R1"), Str("High")>>),
                                  Arr(<<Str("{{name}}"), Num(2)>>)>>))))))

InitTable ==
  /\ \E h \in 1..Len(TableHeaders), l \in 1..Len(TableLoops), r \in 1..Len(TableRowDefs),
        c \in 1..Len(TableSources), e \in 0..(MaxEmptyRows + 1) :
       item = ObjOf(("type" :> Str("table"))
                    @@ ("headers" :> TableHeaders[h])
                    @@ ("loop" :> TableLoops[l])
                    @@ ("rows" :> TableRowDefs[r])
                    @@ ("source" :> TableSources[c])
                    @@ ("emptyRows" :> IF e > MaxEmptyRows THEN Undef ELSE Num(e)))
  /\ \/ \E n \in 0..MaxRows : data = TableData(n)
     \/ data = EmptyObj
     \/ data = Obj("items" :> Str("not a list"))
  /\ content = TableContent
  /\ today = "2026-11-05"
  /\ path = Undef /\ template = Undef /\ boilerplate = Undef /\ condition = Undef
  /\ structure = Undef
  /\ out = NoCalls
  /\ schema = Undef /\ NoForm /\ NoSession

CallCreateTable ==
  /\ ~Called("createTable")
  /\ Record("createTable", CreateTable(item, data, content))
  /\ UNCHANGED <<schema, formVars, sessionVars>>
  /\ UNCHANGED <<path, template, data, boilerplate, condition, item, structure,
                 content, today>>

CallRenderHtmlTable ==
  /\ ~Called("renderHtmlContentItem")
  /\ Record("renderHtmlContentItem", RenderHtmlContentItem(item, data, content))
  /\ UNCHANGED <<schema, formVars, sessionVars>>
  /\ UNCHANGED <<path, template, data, boilerplate, condition, item, structure,
                 content, today>>

NextTable == CallCreateTable \/ CallRenderHtmlTable

SpecTable == InitTable /\ [][NextTable]_vars

\* the cell texts of the data rows of a docx table (none when no table is made)
DocxDataRows(table) ==
  IF table.t # "Table" THEN <<>>
  ELSE LET rows == SelectSeq(table.rows, LAMBDA r : ~r.tableHeader)
       IN [i \in 1..Len(rows) |-> [j \in 1..Len(rows[i].cells) |-> rows[i].cells[j].text]]

\* the cell texts of the header rows of a docx table
DocxHeaderRows(table) ==
  IF table.t # "Table" THEN <<>>
  ELSE LET rows == SelectSeq(table.rows, LAMBDA r : r.tableHeader)
       IN [i \in 1..Len(rows) |-> [j \in 1..Len(rows[i].cells) |-> rows[i].cells[j].text]]

\* the text between the opening tag and the closing tag of a <td> or <th> piece
CellText(piece, open, close) ==
  LET inner == SubSeq(piece, Len(open) + 1, Len(piece) - Len(close))
  IN IF inner = "&nbsp;" THEN "" ELSE inner

\* the rows (<tr> ... </tr>) among pieces[i..], as sequences of cell texts
RECURSIVE HtmlRowsFrom(_, _, _)
HtmlRowsFrom(pieces, i, current) ==
  IF i > Len(pieces) THEN <<>>
  ELSE IF pieces[i] = "<tr>" THEN HtmlRowsFrom(pieces, i + 1, <<>>)
  ELSE IF pieces[i] = "</tr>" THEN <<current>> \o HtmlRowsFrom(pieces, i + 1, <<>>)
  ELSE IF StartsWith(pieces[i], TdOpen)
    THEN HtmlRowsFrom(pieces, i + 1, Append(current, CellText(pieces[i], TdOpen, "</td>")))
  ELSE HtmlRowsFrom(pieces, i + 1, current)

\* the position of a piece among the pieces, 0 when it is not there
PieceIndex(pieces, piece) ==
  IF \E i \in 1..Len(pieces) : pieces[i] = piece
    THEN CHOOSE i \in 1..Len(pieces) : pieces[i] = piece /\ \A j \in 1..(i - 1) : pieces[j] # piece
  ELSE 0

\* the cell texts of the <tbody> rows of an HTML table
HtmlDataRows(html) ==
  IF html.t # "list" \/ PieceIndex(html.v, "<tbody>") = 0 THEN <<>>
  ELSE HtmlRowsFrom(html.v, PieceIndex(html.v, "<tbody>") + 1, <<>>)

\* the header cells of an HTML table, when it has a <thead>
HtmlHeaderCells(html) ==
  LET ths == SelectSeq(html.v, LAMBDA q : StartsWith(q, ThOpen))
  IN [j \in 1..Len(ths) |-> CellText(ths[j], ThOpen, "</th>")]

HtmlHasHeaderRow(html) == html.t = "list" /\ PieceIndex(html.v, "<thead><tr>") > 0

EscapedRows(rows) ==
  [i \in 1..Len(rows) |-> [j \in 1..Len(rows[i]) |-> EscapeString(rows[i][j])]]

IsLoopTable == Field(item, "loop").t = "string" /\ Truthy(Field(item, "loop"))

\* the list the loop path names in the data record, empty when it names none
LoopSource ==
  LET src == Walked(data, LoopPath(Field(item, "loop")))
  IN IF src.t = "array" THEN src.v ELSE <<>>

RowTemplates == LET r == Field(item, "rows") IN IF r.t = "array" THEN r.v ELSE <<>>

\* cell j of row i of a loop table: row template j substituted with element i
LoopExpected ==
  [i \in 1..Len(LoopSource) |->
     [j \in 1..Len(RowTemplates) |->
        StringOf(RenderTemplate(RowTemplates[j], LoopSource[i], Field(content, "blocks")))]]

\* C8: a loop table over a list of N elements has exactly N data rows, in list
\* order, cell j of row i being row template j substituted with element i; a
\* loop path that names no list gives no data rows; neither renderer throws
C8_LoopExpansion ==
  IsLoopTable =>
    /\ Called("createTable") =>
         /\ ~Threw(out["createTable"])
         /\ DocxDataRows(out["createTable"]) = LoopExpected
    /\ Called("renderHtmlContentItem") =>
         /\ ~Threw(out["renderHtmlContentItem"])
         /\ HtmlDataRows(out["renderHtmlContentItem"]) = EscapedRows(LoopExpected)

\* a list of at least two elements under two row templates, in both renderers
C8_Witness ==
  /\ IsLoopTable
  /\ Called("createTable") /\ Called("renderHtmlContentItem")
  /\ Len(LoopSource) >= 2 /\ Len(RowTemplates) = 2
  /\ Len(DocxDataRows(out["createTable"])) = Len(LoopSource)
  /\ DocxDataRows(out["createTable"])[1] = <<"bolt", "2 pcs">>
  /\ DocxDataRows(out["createTable"])[2] = <<"a<b", "{{qty}} pcs">>
  /\ HtmlDataRows(out["renderHtmlContentItem"])[2] = <<"a&lt;b", "{{qty}} pcs">>

\* the first of loop, source, rows, emptyRows that the directive sets
FirstMode ==
  IF Truthy(Field(item, "loop")) THEN "loop"
  ELSE IF Truthy(Field(item, "source")) THEN "source"
  ELSE IF Truthy(Field(item, "rows")) THEN "rows"
  ELSE IF Truthy(Field(item, "emptyRows")) THEN "emptyRows"
  ELSE "none"

\* the defaultRows of the library table a source directive names
SourceExpected ==
  LET tableData == Walked(content, SourcePath(Field(item, "source")))
      rows == IF Truthy(tableData) /\ Field(tableData, "defaultRows").t = "array"
                THEN Field(tableData, "defaultRows").v ELSE <<>>
  IN [i \in 1..Len(rows) |-> [j \in 1..Len(rows[i].v) |-> StringOf(rows[i].v[j])]]

\* the data rows of the first mode the directive sets, and of no other mode
ModeExpected ==
  CASE FirstMode = "loop" -> LoopExpected
    [] FirstMode = "source" -> SourceExpected
    [] FirstMode = "rows" ->
         LET r == StaticRows(item, data, content)
         IN [i \in 1..Len(r.v) |-> [j \in 1..Len(r.v[i].cells) |-> r.v[i].cells[j].text]]
    [] FirstMode = "emptyRows" ->
         [i \in 1..Field(item, "emptyRows").v |-> [j \in 1..ColumnCount(item) |-> ""]]
    [] OTHER -> <<>>

WellFormedDirective ==
  /\ FirstMode = "rows" => ~Threw(StaticRows(item, data, content))

\* C9: table expansion takes the first of loop, source, rows, emptyRows that
\* the directive sets and emits the rows of that mode only, also when it has
\* none; a source table emits the library's defaultRows as they are, in order
C9_FirstMatchWins ==
  WellFormedDirective =>
    /\ Called("createTable") =>
         DocxDataRows(out["createTable"]) = ModeExpected
    /\ Called("renderHtmlContentItem") =>
         HtmlDataRows(out["renderHtmlContentItem"]) = EscapedRows(ModeExpected)

\* createTable alone takes the first mode that is set, and only that mode
DocxFirstMatchWins ==
  (WellFormedDirective /\ Called("createTable")) =>
    DocxDataRows(out["createTable"]) = ModeExpected

HeaderCount ==
  IF Field(item, "headers").t = "array" THEN Len(Field(item, "headers").v) ELSE 0

\* C10: in empty-rows mode with count k there are exactly k data rows of empty
\* cells, as many cells as the header list has entries and 3 without headers,
\* and every data row is as wide as the header row when one is emitted
C10_EmptyRows ==
  FirstMode = "emptyRows" =>
    LET k == Field(item, "emptyRows").v
        width == IF HeaderCount = 0 THEN 3 ELSE HeaderCount
    IN /\ Called("createTable") =>
            LET rows == DocxDataRows(out["createTable"])
                header == DocxHeaderRows(out["createTable"])
            IN /\ rows = [i \in 1..k |-> [j \in 1..width |-> ""]]
               /\ \A h \in 1..Len(header), i \in 1..Len(rows) : Len(rows[i]) = Len(header[h])
       /\ Called("renderHtmlContentItem") =>
            LET rows == HtmlDataRows(out["renderHtmlContentItem"])
            IN /\ rows = [i \in 1..k |-> [j \in 1..width |-> ""]]
               /\ HtmlHasHeaderRow(out["renderHtmlContentItem"]) =>
                    \A i \in 1..Len(rows) :
                      Len(rows[i]) = Len(HtmlHeaderCells(out["renderHtmlContentItem"]))

---------------------------------------------------------------------------
(* Document assembly: one template row, one data record, both renderers *)

Paragraph(tpl) == Obj(("type" :> Str("paragraph")) @@ ("template" :> Str(tpl)))

Conditional(c, items) ==
  Obj(("type" :> Str("conditional")) @@ ("condition" :> c) @@ ("content" :> Arr(items)))

When(it, c) == Obj(("condition" :> c) @@ it.v)

Cond(field, operator, value) ==
  Obj(("field" :> Str(field)) @@ ("operator" :> Str(operator)) @@ ("value" :> value))

Section(id, type, headingText, items) ==
  ObjOf(("id" :> Str(id)) @@ ("type" :> Str(type))
        @@ ("heading" :> IF headingText = "" THEN Undef
                         ELSE Obj(("text" :> Str(headingText)) @@ ("level" :> Num(1))))
        @@ ("content" :> Arr(items)))

Structure(sections) == Obj(("version" :> Str("1.0")) @@ ("sections" :> Arr(sections)))

IncludeSafety == Cond("includeSafety", "equals", Bool(TRUE))

StructureValues ==
  << Structure(<<Section("s1", "section", "Report for {{project}}",
                         <<Paragraph("{{boilerplate.intro}}")>>)>>),
     Structure(<<Section("s1", "section", "Report for {{project}}",
                         <<Paragraph("{{boilerplate.intro.default}}")>>)>>),
     Structure(<<Section("s1", "section", "Safety",
                         <<Paragraph("before"),
                           When(Paragraph("Safety plan for {{project}}"), IncludeSafety),
                           Paragraph("after {{today}}")>>)>>),
     Structure(<<Section("h", "header", "Page header", <<Paragraph("header text")>>),
                 Section("s1", "section", "",
                         <<Paragraph("one"),
                           Obj(("type" :> Str("image")) @@ ("template" :> Str("logo"))),
                           Paragraph("two")>>),
                 Section("f", "footer", "", <<Paragraph("footer text")>>)>>),
     Structure(<<Section("s1", "section", "Nested",
                         <<Conditional(Cond("project", "not_equals", Str("Beta")),
                                       <<Paragraph("inner"),
                                         When(Paragraph("inner safety"), IncludeSafety)>>)>>)>>),
     Structure(<<Section("s1", "section", "Parts for {{project}}",
                         <<Obj(("type" :> Str("table"))
                               @@ ("headers" :> Arr(<<Str("Name"), Str("Project")>>))
                               @@ ("loop" :> Str("items"))
                               @@ ("rows" :> Arr(<<Str("{{name}}"), Str("{{project}}")>>)))>>),
                 Section("s2", "section", "Sign-off",
                         <<Obj(("type" :> Str("table")) @@ ("emptyRows" :> Num(2)))>>)>>),
     Structure(<<Section("h", "header", "Page header", <<>>)>>),
     Structure(<<>>),
     Obj("version" :> Str("1.0")),
     Null,
     Structure(<<Section("s1", "section", "Figures",
                         <<Obj("template" :> Str("untyped")),
                           Conditional(Cond("project", "not_equals", Str("Beta")),
                                       <<Paragraph("first"),
                                         Obj(("type" :> Str("chart")) @@ ("text" :> Str("pie"))),
                                         Paragraph("second <{{project}}>")>>)>>),
                 Section("s2", "section", "",
                         <<Obj(("type" :> Str("Paragraph")) @@ ("template" :> Str("capital")))>>)>>),
     Structure(<<Section("s1", "section", "Anomalies",
                         <<When(Paragraph("kept {{missing}}"),
                                Cond("project", "matches", Str("A.*")))>>)>>) >>

UserDataValues ==
  << Obj("project" :> Str("Alpha")),
     Obj(("project" :> Str("Beta")) @@ ("includeSafety" :> Bool(FALSE))
         @@ ("items" :> Arr(<<Obj("name" :> Str("bolt"))>>))),
     Obj(("project" :> Str("Gamma <1>")) @@ ("includeSafety" :> Bool(TRUE))
         @@ ("today" :> Str("my own date"))
         @@ ("items" :> Arr(<<Obj("name" :> Str("nut")),
                              Obj(("name" :> Str("cog")) @@ ("project" :> Str("Own")))>>))),
     EmptyObj >>

ContentValues ==
  << Obj(("version" :> Str("1.0"))
         @@ ("blocks" :> Obj("intro" :> Obj("default" :> Str("Standard intro text."))))),
     Obj("blocks" :> Obj("intro" :> Str("Flat intro text."))),
     EmptyObj >>

Days == <<"2026-11-05", "2026-11-06">>

Init ==
  /\ \E i \in 1..Len(StructureValues) : structure = StructureValues[i]
  /\ \E i \in 1..Len(UserDataValues) : data = UserDataValues[i]
  /\ \E i \in 1..Len(ContentValues) : content = ContentValues[i]
  /\ today = Days[1]
  /\ path = Undef /\ template = Undef /\ boilerplate = Undef /\ condition = Undef
  /\ item = Undef
  /\ out = NoCalls
  /\ schema = Undef /\ NoForm /\ NoSession

\* the template row the routes hand to generateDocument
TemplateRow == Obj(("structure_json" :> structure) @@ ("content_json" :> content))

\* generateDocument(template, userData); what getToday() returned to it is
\* recorded with the result
GenerateDocx ==
  /\ ~Called("generateDocument")
  /\ out' = ("generateDocument" :> GenerateDocument(TemplateRow, data))
            @@ ("getToday" :> Str(today)) @@ out
  /\ UNCHANGED <<schema, formVars, sessionVars>>
  /\ UNCHANGED <<path, template, data, boilerplate, condition, item, structure,
                 content, today>>

\* generateHtmlPreview(structureJson, userData, contentJson)
GeneratePreview ==
  /\ ~Called("generateHtmlPreview")
  /\ Record("generateHtmlPreview", GenerateHtmlPreview(structure, data, content))
  /\ UNCHANGED <<schema, formVars, sessionVars>>
  /\ UNCHANGED <<path, template, data, boilerplate, condition, item, structure,
                 content, today>>

\* the date getToday() reads moves on
DayPasses ==
  /\ today = Days[1]
  /\ today' = Days[2]
  /\ UNCHANGED <<schema, formVars, sessionVars>>
  /\ UNCHANGED <<path, template, data, boilerplate, condition, item, structure,
                 content, out>>

\* generateDocument(template, userData) once more, on the same template row
\* and the same data record
RegenerateDocx ==
  /\ Called("generateDocument") /\ ~Called("regenerate")
  /\ Record("regenerate", GenerateDocument(TemplateRow, data))
  /\ UNCHANGED <<schema, formVars, sessionVars>>
  /\ UNCHANGED <<path, template, data, boilerplate, condition, item, structure,
                 content, today>>

Next == GenerateDocx \/ GeneratePreview \/ RegenerateDocx \/ DayPasses

Spec == Init /\ [][Next]_vars

\* the end-to-end scenario of the specification
EndToEndScenario ==
  /\ SameValue(structure, StructureValues[1])
  /\ SameValue(data, UserDataValues[1])
  /\ SameValue(content, ContentValues[1])

\* C3: in the end-to-end scenario the assembled document has exactly one
\* section, whose heading reads "Report for Alpha" and whose paragraph reads
\* "Standard intro text."
C3_EndToEnd ==
  (EndToEndScenario /\ Called("generateDocument")) =>
    LET doc == out["generateDocument"]
    IN /\ doc.t = "Document"
       /\ Len(doc.sections) = 1
       /\ Len(doc.sections[1].children) = 2
       /\ IsStr(doc.sections[1].children[1].text, "Report for Alpha")
       /\ IsStr(doc.sections[1].children[2].text, "Standard intro text.")

\* what generateDocument assembles in that scenario
EndToEndObserved ==
  (EndToEndScenario /\ Called("generateDocument")) =>
    LET doc == out["generateDocument"]
    IN /\ doc.t = "Document"
       /\ Len(doc.sections) = 1
       /\ Len(doc.sections[1].children) = 2
       /\ IsStr(doc.sections[1].children[1].text, "Report for Alpha")
       /\ IsStr(doc.sections[1].children[2].text, "[object Object]")


---------------------------------------------------------------------------
(* What the two renderers put out, read as a tree: a sequence of sections,
   each a sequence of nodes [kind, text, rows] *)

Node(kind, text, rows) == [kind |-> kind, text |-> text, rows |-> rows]

\* the text a docx paragraph carries
NodeText(text) == IF text.t = "undefined" THEN "" ELSE StringOf(text)

\* the cell texts of all rows of a docx table, header row included
DocxAllRows(table) ==
  [i \in 1..Len(table.rows) |->
     [j \in 1..Len(table.rows[i].cells) |-> table.rows[i].cells[j].text]]

DocxNode(el) ==
  IF el.t = "Table" THEN Node("table", "", DocxAllRows(el))
  ELSE IF "heading" \in DOMAIN el THEN Node("heading", NodeText(el.text), <<>>)
  ELSE Node("paragraph", NodeText(el.text), <<>>)

\* the tree of a generated document; none when generation failed
DocxOutline(doc) ==
  IF doc.t # "Document" THEN <<>>
  ELSE [k \in 1..Len(doc.sections) |->
          [n \in 1..Len(doc.sections[k].children) |-> DocxNode(doc.sections[k].children[n])]]

\* the text of a <hN>...</hN> or <p>...</p> piece
InnerText(piece) ==
  LET k == CHOOSE k \in 1..Len(piece) :
             Char(piece, k) = ">" /\ \A j \in 1..(k - 1) : Char(piece, j) # ">"
  IN SubSeq(piece, k + 1, Len(piece) - (k + 1))

\* the sections among pieces[i..]; nodes, rows and row are what has been read
\* of the section, the table and the table row that are open
RECURSIVE HtmlOutlineFrom(_, _, _, _, _)
HtmlOutlineFrom(pieces, i, nodes, rows, row) ==
  IF i > Len(pieces) THEN <<>>
  ELSE LET q == pieces[i]
       IN CASE q = "<section>" -> HtmlOutlineFrom(pieces, i + 1, <<>>, <<>>, <<>>)
            [] q = "</section>" -> <<nodes>> \o HtmlOutlineFrom(pieces, i + 1, <<>>, <<>>, <<>>)
            [] q = TableOpen -> HtmlOutlineFrom(pieces, i + 1, nodes, <<>>, <<>>)
            [] q \in {"<thead><tr>", "<tr>"} -> HtmlOutlineFrom(pieces, i + 1, nodes, rows, <<>>)
            [] q \in {"</tr></thead>", "</tr>"} ->
                 HtmlOutlineFrom(pieces, i + 1, nodes, Append(rows, row), <<>>)
            [] q = "</tbody></table>" ->
                 HtmlOutlineFrom(pieces, i + 1, Append(nodes, Node("table", "", rows)), <<>>, <<>>)
            [] StartsWith(q, ThOpen) ->
                 HtmlOutlineFrom(pieces, i + 1, nodes, rows,
                                 Append(row, CellText(q, ThOpen, "</th>")))
            [] StartsWith(q, TdOpen) ->
                 HtmlOutlineFrom(pieces, i + 1, nodes, rows,
                                 Append(row, CellText(q, TdOpen, "</td>")))
            [] StartsWith(q, "<h") ->
                 HtmlOutlineFrom(pieces, i + 1,
                                 Append(nodes, Node("heading", InnerText(q), <<>>)), rows, row)
            [] StartsWith(q, "<p>") ->
                 HtmlOutlineFrom(pieces, i + 1,
                                 Append(nodes, Node("paragraph", InnerText(q), <<>>)), rows, row)
            [] OTHER -> HtmlOutlineFrom(pieces, i + 1, nodes, rows, row)

PreviewFailed(html) == html.v = <<"<p>Preview generation failed</p>">>

\* the tree of a preview; none when the preview failed
HtmlOutline(html) ==
  IF PreviewFailed(html) THEN <<>> ELSE HtmlOutlineFrom(html.v, 1, <<>>, <<>>, <<>>)

\* a tree with every text HTML-escaped
EscapedOutline(tree) ==
  [k \in 1..Len(tree) |->
     [n \in 1..Len(tree[k]) |->
        Node(tree[k][n].kind, EscapeString(tree[k][n].text), EscapedRows(tree[k][n].rows))]]

\* the nodes of a tree of the given kind, section after section
KindCount(tree, kind) ==
  [k \in 1..Len(tree) |-> Len(SelectSeq(tree[k], LAMBDA nd : nd.kind = kind))]

---------------------------------------------------------------------------
(* Conditional omission *)

\* the item has a condition and evaluateCondition answers false to it
ConditionFails(it, d) ==
  /\ it.t = "object"
  /\ Truthy(Field(it, "condition"))
  /\ IsFalse(EvaluateCondition(Field(it, "condition"), d))

HasItemList(it) == it.t = "object" /\ "content" \in DOMAIN it.v /\ it.v["content"].t = "array"

\* the items without those whose condition fails, at every depth
RECURSIVE PrunedItems(_, _)
PrunedItems(items, d) ==
  IF items = <<>> THEN <<>>
  ELSE (IF ConditionFails(Head(items), d) THEN <<>>
        ELSE IF HasItemList(Head(items))
          THEN <<Obj([Head(items).v EXCEPT !["content"] = Arr(PrunedItems(@.v, d))])>>
        ELSE <<Head(items)>>)
       \o PrunedItems(Tail(items), d)

\* the items of a section without those whose own condition fails
TopPrunedItems(items, d) == SelectSeq(items, LAMBDA it : ~ConditionFails(it, d))

\* a structure whose sections are records with a list of items
WellFormedStructure(st) ==
  /\ st.t = "object" /\ "sections" \in DOMAIN st.v /\ st.v["sections"].t = "array"
  /\ \A k \in 1..Len(st.v["sections"].v) : HasItemList(st.v["sections"].v[k])

\* the structure with the items of every section replaced
Pruned(st, d) ==
  Obj([st.v EXCEPT !["sections"] =
         Arr([k \in 1..Len(@.v) |->
                Obj([@.v[k].v EXCEPT !["content"] = Arr(PrunedItems(@.v, d))])])])

TopPruned(st, d) ==
  Obj([st.v EXCEPT !["sections"] =
         Arr([k \in 1..Len(@.v) |->
                Obj([@.v[k].v EXCEPT !["content"] = Arr(TopPrunedItems(@.v, d))])])])

RowOf(st) == Obj(("structure_json" :> st) @@ ("content_json" :> content))

\* generateDocument put out what it puts out for the structure st
DocxRendersAs(st) ==
  /\ out["generateDocument"].t = GenerateDocument(RowOf(st), data).t
  /\ DocxOutline(out["generateDocument"]) = DocxOutline(GenerateDocument(RowOf(st), data))

\* generateHtmlPreview put out what it puts out for the structure st
PreviewRendersAs(st) ==
  /\ PreviewFailed(out["generateHtmlPreview"])
       = PreviewFailed(GenerateHtmlPreview(st, data, content))
  /\ HtmlOutline(out["generateHtmlPreview"])
       = HtmlOutline(GenerateHtmlPreview(st, data, content))

\* generateDocument was called, and on the day it still is
GeneratedToday == Called("generateDocument") /\ IsStr(out["getToday"], today)

\* C11: a content item whose condition evaluates to false leaves no node in
\* the output of either renderer, and all other items appear as they do
\* without it, in their order: each renderer puts out what it puts out for the
\* structure from which the items with a failing condition are removed
C11_FailingItemsAbsent ==
  WellFormedStructure(structure) =>
    /\ GeneratedToday => DocxRendersAs(Pruned(structure, data))
    /\ Called("generateHtmlPreview") => PreviewRendersAs(Pruned(structure, data))

\* the same for the items of a section themselves, items nested in a
\* conditional item left as they are
TopLevelFailingItemsAbsent ==
  WellFormedStructure(structure) =>
    /\ GeneratedToday => DocxRendersAs(TopPruned(structure, data))
    /\ Called("generateHtmlPreview") => PreviewRendersAs(TopPruned(structure, data))

\* the omission scenario, rendered by both renderers: the two other paragraphs
\* are all the section holds
OmissionObserved ==
  /\ SameValue(structure, StructureValues[3])
  /\ SameValue(data, UserDataValues[2])
  /\ Called("generateDocument") /\ Called("generateHtmlPreview")
  /\ KindCount(DocxOutline(out["generateDocument"]), "paragraph") = <<2>>
  /\ KindCount(HtmlOutline(out["generateHtmlPreview"]), "paragraph") = <<2>>


---------------------------------------------------------------------------
(* Unknown content types *)

ContentTypes == {"paragraph", "table", "conditional"}

\* an item whose type is none of the three the switches know
HasUnknownType(it) ==
  it.t = "object" /\ ~(Field(it, "type").t = "string" /\ Field(it, "type").v \in ContentTypes)

\* the items without those of an unknown type, at every depth
RECURSIVE KnownItems(_)
KnownItems(items) ==
  IF items = <<>> THEN <<>>
  ELSE (IF HasUnknownType(Head(items)) THEN <<>>
        ELSE IF HasItemList(Head(items))
          THEN <<Obj([Head(items).v EXCEPT !["content"] = Arr(KnownItems(@.v))])>>
        ELSE <<Head(items)>>)
       \o KnownItems(Tail(items))

\* the structure without its items of an unknown type
Known(st) ==
  Obj([st.v EXCEPT !["sections"] =
         Arr([k \in 1..Len(@.v) |->
                Obj([@.v[k].v EXCEPT !["content"] = Arr(KnownItems(@.v))])])])

\* C12: an item of an unknown type does not abort the assembly and leaves no
\* node: each renderer puts out what it puts out for the structure without
\* the items of an unknown type, every other item in its place
C12_UnknownTypeSkipped ==
  WellFormedStructure(structure) =>
    /\ GeneratedToday => DocxRendersAs(Known(structure))
    /\ Called("generateHtmlPreview") => PreviewRendersAs(Known(structure))

\* both renderers have assembled a structure that holds items of unknown
\* types, among them one inside a conditional item whose condition holds
C12_Witness ==
  /\ SameValue(structure, StructureValues[11])
  /\ SameValue(data, UserDataValues[1])
  /\ GeneratedToday /\ Called("generateHtmlPreview")
  /\ out["generateDocument"].t = "Document"
  /\ KindCount(DocxOutline(out["generateDocument"]), "paragraph") = <<2, 0>>
  /\ KindCount(HtmlOutline(out["generateHtmlPreview"]), "paragraph") = <<2, 0>>
  /\ Len(out["generateDocument"].console) = 3


---------------------------------------------------------------------------
(* The two renderers against each other *)

\* both renderers have put out a tree for the inputs
BothRendered ==
  /\ GeneratedToday /\ Called("generateHtmlPreview")
  /\ out["generateDocument"].t = "Document"
  /\ ~PreviewFailed(out["generateHtmlPreview"])

\* C13: the docx and the preview of the same structure, data record and
\* content library have the same sections with the same headings, paragraphs
\* and tables in them, and the same text (HTML-escaped in the preview) in every
\* heading, paragraph and table cell
C13_RenderersAgree ==
  BothRendered =>
    EscapedOutline(DocxOutline(out["generateDocument"]))
      = HtmlOutline(out["generateHtmlPreview"])

\* the structures with a section that is kept, without tables and without
\* a reference to today
PlainStructures == {1, 2, 4, 5, 11}

\* on those the two renderers agree
PlainRenderersAgree ==
  (BothRendered /\ \E i \in PlainStructures : SameValue(structure, StructureValues[i])) =>
    EscapedOutline(DocxOutline(out["generateDocument"]))
      = HtmlOutline(out["generateHtmlPreview"])


---------------------------------------------------------------------------
(* Determinism *)

\* two runs of generateDocument on the same inputs put out the same
RunsAgree ==
  (Called("generateDocument") /\ Called("regenerate")) =>
    /\ out["generateDocument"].t = out["regenerate"].t
    /\ DocxOutline(out["generateDocument"]) = DocxOutline(out["regenerate"])

\* the last paragraph of the third structure, "after {{today}}", rendered with
\* the today of a data record that has one
UserTodayKept ==
  (/\ SameValue(structure, StructureValues[3])
   /\ HasOwn(data, "today")
   /\ Called("generateDocument")) =>
    LET nodes == DocxOutline(out["generateDocument"])[1]
    IN nodes[Len(nodes)].text = "after " \o StringOf(Field(data, "today"))

\* C14: two runs of the assembly on the same structure, data record and
\* content library put out the same tree, whatever the date of each run, and
\* a today supplied in the data record is the today that appears in the output
C14_Deterministic == RunsAgree /\ UserTodayKept

\* two runs on the same day put out the same
SameDayRunsAgree ==
  (GeneratedToday /\ Called("regenerate")) =>
    /\ out["generateDocument"].t = out["regenerate"].t
    /\ DocxOutline(out["generateDocument"]) = DocxOutline(out["regenerate"])


---------------------------------------------------------------------------
(* Structures without sections *)

\* the structure has no sections key (or is no structure at all)
SectionsMissing == IsNullish(structure) \/ ~Truthy(Field(structure, "sections"))

\* the structure has no sections: none at all, or an empty list of them
NoSections ==
  \/ SectionsMissing
  \/ (Field(structure, "sections").t = "array" /\ Len(Field(structure, "sections").v) = 0)

\* C15: for a structure with no sections generateDocument fails with an
\* error and generateHtmlPreview answers that the preview failed; neither
\* returns a document or a preview
C15_NoSectionsFails ==
  NoSections =>
    /\ Called("generateDocument") => out["generateDocument"].t = "Error"
    /\ Called("generateHtmlPreview") => PreviewFailed(out["generateHtmlPreview"])

\* without a sections key generateDocument fails with its one error
MissingSectionsRejected ==
  (SectionsMissing /\ Called("generateDocument")) =>
    /\ out["generateDocument"].t = "Error"
    /\ out["generateDocument"].message = "Failed to generate document: Invalid structure JSON"

\* what the code makes of an empty list of sections
EmptySectionsObserved ==
  (SameValue(structure, StructureValues[8]) /\ Called("generateDocument")
   /\ Called("generateHtmlPreview")) =>
    /\ DocxOutline(out["generateDocument"]) = <<<<Node("paragraph", "Empty document", <<>>)>>>>
    /\ out["generateHtmlPreview"].v = <<"<div class=\"document-preview\">", "</div>">>


---------------------------------------------------------------------------
(* TableField.jsx: the table field of the form *)

\* the most rows the model lets the table grow to
MaxFormRows == 6

\* the keys of field.columns
ColumnKeys(columns) ==
  IF IsNullish(columns) THEN {}
  ELSE {StringOf(Field(columns.v[i], "key")) : i \in 1..Len(columns.v)}

\* const emptyRow = {}; field.columns?.forEach((col) => { emptyRow[col.key] = '' })
EmptyRow(field) == Obj([k \in ColumnKeys(Field(field, "columns")) |-> Str("")])

\* getInitialRows: Array(field.defaultRows || 5).fill(null).map(() => ({ ...emptyRow }))
GetInitialRows(field) ==
  Arr([i \in 1..ArrayLength(Or(Field(field, "defaultRows"), Num(5))) |-> EmptyRow(field)])

\* x >= y on numbers: false when either is NaN
NumAtLeast(x, y) == ~x.nan /\ ~y.nan /\ x.n >= y.n

\* rows.length >= maxRows
AtLeast(n, b) == NumAtLeast(Finite(n), ToNumber(b))

\* rows.length <= minRows
AtMost(n, b) == NumAtLeast(ToNumber(b), Finite(n))

\* rows.filter((_, index) => index !== rowIndex)
WithoutRow(rows, rowIndex) ==
  [i \in 1..(Len(rows) - 1) |-> IF i < rowIndex THEN rows[i] ELSE rows[i + 1]]

\* { ...newRows[rowIndex], [columnKey]: value }
WithCell(row, columnKey, value) == Obj((columnKey :> Str(value)) @@ row.v)

\* setRows(newRows), and the effect that hands the rows to the form
SetRows(newRows) == formRows' = Arr(newRows) /\ formValue' = formRows'

\* alert(message): nothing else happens
Alert(message) ==
  /\ out' = ("alert" :> Str(message)) @@ out
  /\ UNCHANGED <<formRows, formValue>>

TableColumns ==
  << Arr(<<Obj(("key" :> Str("name")) @@ ("label" :> Str("Name")))>>), Undef >>

RowLimits == << Undef, Num(0), Num(1), Num(2), Num(3), Num(4) >>

\* a field of type table as the schema describes it
TableFieldWith(columns, minRows, maxRows, defaultRows) ==
  ObjOf(("id" :> Str("parts")) @@ ("type" :> Str("table")) @@ ("label" :> Str("Parts"))
        @@ ("columns" :> columns) @@ ("minRows" :> minRows) @@ ("maxRows" :> maxRows)
        @@ ("defaultRows" :> defaultRows))

\* the table field mounted: useState(getInitialRows()) and the first effect
InitForm ==
  /\ \E c \in 1..Len(TableColumns), lo \in {1, 2, 4}, hi \in {1, 5}, d \in {1, 2, 3, 6} :
       tableField = TableFieldWith(TableColumns[c], RowLimits[lo], RowLimits[hi], RowLimits[d])
  /\ formRows = GetInitialRows(tableField)
  /\ formValue = formRows
  /\ out = NoCalls
  /\ schema = Undef /\ NoSession
  /\ path = Undef /\ template = Undef /\ boilerplate = Undef /\ condition = Undef
  /\ item = Undef /\ structure = Undef /\ content = Undef /\ data = Undef
  /\ today = "2026-11-05"

\* handleAddRow
HandleAddRow ==
  /\ Len(formRows.v) < MaxFormRows
  /\ IF AtLeast(Len(formRows.v), Or(Field(tableField, "maxRows"), Num(100)))
       THEN Alert("Maximum "
                  \o StringOf(Or(Field(tableField, "maxRows"), Num(100))) \o " rows allowed")
     ELSE SetRows(Append(formRows.v, EmptyRow(tableField))) /\ UNCHANGED out
  /\ UNCHANGED <<tableField, schema, sessionVars>>
  /\ UNCHANGED <<path, template, data, boilerplate, condition, item, structure,
                 content, today>>

\* handleRemoveRow(rowIndex), from the button of a row that is shown
HandleRemoveRow ==
  /\ \E rowIndex \in 1..Len(formRows.v) :
       IF AtMost(Len(formRows.v), Or(Field(tableField, "minRows"), Num(1)))
         THEN Alert("Minimum "
                    \o StringOf(Or(Field(tableField, "minRows"), Num(1))) \o " row(s) required")
       ELSE SetRows(WithoutRow(formRows.v, rowIndex)) /\ UNCHANGED out
  /\ UNCHANGED <<tableField, schema, sessionVars>>
  /\ UNCHANGED <<path, template, data, boilerplate, condition, item, structure,
                 content, today>>

\* handleCellChange(rowIndex, columnKey, value), from a cell that is shown
HandleCellChange ==
  /\ \E rowIndex \in 1..Len(formRows.v),
        columnKey \in ColumnKeys(Field(tableField, "columns")), value \in {"x"} :
       SetRows([formRows.v EXCEPT ![rowIndex] = WithCell(@, columnKey, value)])
  /\ UNCHANGED <<tableField, schema, sessionVars, out>>
  /\ UNCHANGED <<path, template, data, boilerplate, condition, item, structure,
                 content, today>>

NextForm == HandleAddRow \/ HandleRemoveRow \/ HandleCellChange

SpecForm == InitForm /\ [][NextForm]_vars

\* the limit the field sets, or the given one when it sets none
LimitOr(limit, none) == IF limit.t = "number" THEN limit.v ELSE none

\* the number of rows is within the limits the field sets
RowCountInRange ==
  /\ Len(formRows.v) >= LimitOr(Field(tableField, "minRows"), 0)
  /\ Len(formRows.v) <= LimitOr(Field(tableField, "maxRows"), 100)

\* C16: in every reachable state of the table field, the initial one built
\* from defaultRows included, the number of rows is within [minRows, maxRows]
C16_RowCountInRange == RowCountInRange /\ Len(formValue.v) = Len(formRows.v)

\* no action takes the number of rows out of the limits
RowCountStaysInRange == [][RowCountInRange => RowCountInRange']_vars


---------------------------------------------------------------------------
(* validation.js: validateUserData, and the two routes of documents.js that
   call it before generateDocument *)

\* return { valid: errors.length === 0, errors }
Validation(errors) == [t |-> "validation", valid |-> Len(errors) = 0, errors |-> errors]

\* if (field.required && !data[field.id]) errors.push(`Field "${label}" is required`)
RequiredChecked(required, value, label) ==
  List(IF Truthy(required) /\ ~Truthy(value)
         THEN <<"Field \"" \o label \o "\" is required">> ELSE <<>>)

\* case 'number'
NumberChecked(min, max, value, label) ==
  List((IF ToNumber(value).nan THEN <<"Field \"" \o label \o "\" must be a number">> ELSE <<>>)
       \o (IF min.t # "undefined" /\ LessThan(value, min)
             THEN <<"Field \"" \o label \o "\" must be at least " \o StringOf(min)>>
           ELSE <<>>)
       \o (IF max.t # "undefined" /\ GreaterThan(value, max)
             THEN <<"Field \"" \o label \o "\" must be at most " \o StringOf(max)>>
           ELSE <<>>))

\* case 'text', case 'textarea'; data[field.id].length throws for null
TextChecked(minLength, maxLength, value, label) ==
  IF (Truthy(minLength) \/ Truthy(maxLength)) /\ IsNullish(value) THEN TypeError
  ELSE List((IF value.t # "string" THEN <<"Field \"" \o label \o "\" must be text">>
             ELSE <<>>)
            \o (IF Truthy(minLength) /\ LessThan(Field(value, "length"), minLength)
                  THEN <<"Field \"" \o label \o "\" must be at least "
                         \o StringOf(minLength) \o " characters">>
                ELSE <<>>)
            \o (IF Truthy(maxLength) /\ GreaterThan(Field(value, "length"), maxLength)
                  THEN <<"Field \"" \o label \o "\" must be at most "
                         \o StringOf(maxLength) \o " characters">>
                ELSE <<>>))

\* case 'table'
TableChecked(value, label) ==
  List(IF value.t # "array" THEN <<"Field \"" \o label \o "\" must be a table (array)">>
       ELSE <<>>)

\* if (data[field.id] !== undefined) switch (field.type)
TypeChecked(type, validation, value, label) ==
  IF value.t = "undefined" THEN List(<<>>)
  ELSE CASE IsStr(type, "number") ->
              NumberChecked(OptField(validation, "min"), OptField(validation, "max"),
                            value, label)
         [] IsStr(type, "text") \/ IsStr(type, "textarea") ->
              TextChecked(OptField(validation, "minLength"),
                          OptField(validation, "maxLength"), value, label)
         [] IsStr(type, "table") -> TableChecked(value, label)
         [] OTHER -> List(<<>>)

\* the body of section.fields?.forEach(field => ...), data[field.id] read
FieldChecked(f, value, label) ==
  Appended(<<RequiredChecked(Field(f, "required"), value, label),
             TypeChecked(Field(f, "type"), Field(f, "validation"), value, label)>>)

\* the body of section.fields?.forEach(field => ...)
ValidateField(f, d) ==
  IF IsNullish(f) \/ IsNullish(d) THEN TypeError
  ELSE FieldChecked(f, Prop(d, StringOf(Field(f, "id"))), StringOf(Field(f, "label")))

\* section.fields?.forEach(...)
ValidateFields(fields, d) ==
  IF IsNullish(fields) THEN List(<<>>)
  ELSE IF fields.t # "array" THEN TypeError
  ELSE Appended([i \in 1..Len(fields.v) |-> ValidateField(fields.v[i], d)])

\* the body of schema.sections.forEach(section => ...)
ValidateSection(section, d) ==
  IF IsNullish(section) THEN TypeError ELSE ValidateFields(Field(section, "fields"), d)

\* the errors as the result, unless something threw
ValidationOf(errors) == IF Threw(errors) THEN errors ELSE Validation(errors.v)

\* schema.sections.forEach(...)
ValidateSections(sections, d) ==
  IF ~Truthy(sections) THEN Validation(<<>>)
  ELSE IF sections.t # "array" THEN TypeError
  ELSE ValidationOf(Appended([i \in 1..Len(sections.v) |-> ValidateSection(sections.v[i], d)]))

\* validateUserData(data, schema)
ValidateUserData(d, sch) ==
  IF ~Truthy(sch) THEN Validation(<<>>) ELSE ValidateSections(Field(sch, "sections"), d)

\* the template row the routes read: schema, structure and content
TemplateRecord ==
  Obj(("schema_json" :> schema) @@ ("structure_json" :> structure)
      @@ ("content_json" :> content))

\* res.status(status).json(...), with the error code if there is one
Response(status, code) == [status |-> status, code |-> code]

\* generateDocument was reached: its result, and the response after it
\* (next(error) when it threw)
Generated(doc, route, site) ==
  (site :> doc)
  @@ (route :> IF doc.t = "Document" THEN Response(201, "") ELSE Response(500, doc.message))

\* the route from the validation on
Validated(validation, row, route, site) ==
  IF Threw(validation) THEN route :> Response(500, "TypeError")
  ELSE IF ~validation.valid THEN route :> Response(400, "INVALID_USER_DATA")
  ELSE Generated(GenerateDocument(row, data), route, site)

\* the route from the template lookup on, with the row the lookup gave
LookedUp(row, notFound, route, site) ==
  IF row.t # "object" THEN route :> Response(404, notFound)
  ELSE Validated(ValidateUserData(data, Field(row, "schema_json")), row, route, site)

\* the callers of the routes
Users == {"u1", "u2"}

\* the row of a user
OwnedBy(userId, row) == Obj(("user_id" :> Str(userId)) @@ row.v)

\* the same without .eq('user_id', userId)
RowOfAnyone(rows, id, userId) == IF id \in 1..Len(rows) THEN rows[id] ELSE Undef

\* from(table).select(...).eq('id', id).eq('user_id', userId).single(); a row
\* that was deleted is null
RowOwned(rows, id, userId) ==
  IF id \in 1..Len(rows) /\ IsStr(Field(rows[id], "user_id"), userId) THEN rows[id]
  ELSE Undef

\* the answer, with the user it is given to
AnsweredTo(userId, answer) ==
  [status |-> answer.status, code |-> answer.code, caller |-> userId]

\* the calls of a request, with its answer given to the user
Attributed(userId, route, calls) == (route :> AnsweredTo(userId, calls[route])) @@ calls

\* generateDocument returned a buffer
Built(calls, site) == site \in DOMAIN calls /\ calls[site].t = "Document"

\* `generated/${userId}/${randomUUID()}.docx`, the n-th file of the storage
GeneratedPath(userId, n) == "generated/" \o userId \o "/" \o NumToString(n) \o ".docx"

\* the request from generateDocument on: uploadFile, the insert or update of
\* the row and getSignedUrl may each throw, and next(error) answers
Piped(calls, route, site, stored, saved, signed) ==
  IF Built(calls, site) /\ ~(stored /\ saved /\ signed)
    THEN (route :> Response(500, "Error")) @@ calls
  ELSE calls

\* whether uploadFile, the insert or update, and getSignedUrl go through:
\* they are reached only with the document generated
Outcomes(calls, site) == IF Built(calls, site) THEN BOOLEAN ELSE {FALSE}

\* the storage after await uploadFile(...)
Uploaded(calls, site, stored, userId) ==
  IF Built(calls, site) /\ stored
    THEN files \cup {GeneratedPath(userId, Cardinality(files) + 1)}
  ELSE files

\* a row is written without the file being uploaded
RowWrittenUnstored(calls, site, stored, saved) == Built(calls, site) /\ saved

\* the row is written: the document was generated, the file is uploaded and
\* the insert or update gave no error
RowWritten(calls, site, stored, saved) == Built(calls, site) /\ stored /\ saved

\* insert({ user_id: userId, template_id: templateId, name: name.trim(),
\*          user_data_json: userData, output_docx_url: uploadResult.url })
DocumentRowOf(userId, templateId) ==
  Obj(("user_id" :> Str(userId)) @@ ("template_id" :> Num(templateId))
      @@ ("user_data_json" :> data)
      @@ ("output_docx_url" :> Str(GeneratedPath(userId, Cardinality(files) + 1))))

\* update({ user_data_json: userData, output_docx_url: uploadResult.url })
Regenerated(row, userId) ==
  Obj(("user_data_json" :> data)
      @@ ("output_docx_url" :> Str(GeneratedPath(userId, Cardinality(files) + 1)))
      @@ row.v)

\* the calls of POST /api/documents/generate up to generateDocument
GenerateCalls(userId, templateId) ==
  IF ~Truthy(data) THEN "POST /generate" :> Response(400, "MISSING_REQUIRED_FIELDS")
  ELSE LookedUp(RowOwned(templateRows, templateId, userId), "TEMPLATE_NOT_FOUND",
                "POST /generate", "generateDocument")

\* existingDoc.templates of select('*, templates(*)')
TemplateOfDocument(row) ==
  IF row.t = "object" THEN templateRows[Field(row, "template_id").v] ELSE Undef

\* the calls of PUT /api/documents/:documentId/regenerate up to
\* generateDocument
RegenerateCalls(userId, documentId) ==
  IF ~Truthy(data) THEN "PUT /regenerate" :> Response(400, "MISSING_USER_DATA")
  ELSE LookedUp(TemplateOfDocument(RowOwned(documentRows, documentId, userId)),
                "DOCUMENT_NOT_FOUND", "PUT /regenerate", "regenerate")

\* a field of the schema
SchemaField(id, type, required, validation) ==
  ObjOf(("id" :> Str(id)) @@ ("type" :> Str(type)) @@ ("label" :> Str(id))
        @@ ("required" :> required) @@ ("validation" :> validation))

\* a schema of one section
SchemaOf(fields) ==
  Obj("sections" :> Arr(<<Obj(("id" :> Str("main")) @@ ("title" :> Str("Main"))
                               @@ ("fields" :> Arr(fields)))>>))

\* a field of the schema that is shown under a condition
ConditionalField(id, type, required, show_when) ==
  ObjOf(("id" :> Str(id)) @@ ("type" :> Str(type)) @@ ("label" :> Str(id))
        @@ ("required" :> required) @@ ("conditional" :> Obj("show_when" :> show_when)))

SchemaValues ==
  << SchemaOf(<<SchemaField("project", "text", Bool(TRUE), Undef)>>),
     SchemaOf(<<SchemaField("project", "text", Bool(TRUE), Undef),
                ConditionalField("count", "number", Bool(TRUE),
                                 Obj(("field" :> Str("project")) @@ ("operator" :> Str("equals"))
                                     @@ ("value" :> Str("Beta"))))>>),
     SchemaOf(<<SchemaField("project", "text", Bool(TRUE), Obj("minLength" :> Num(2))),
                SchemaField("count", "number", Bool(TRUE), Obj("min" :> Num(1))),
                SchemaField("notes", "textarea", Bool(FALSE), Undef)>>),
     SchemaOf(<<SchemaField("items", "table", Bool(TRUE), Undef),
                SchemaField("project", "text", Undef, Undef)>>),
     SchemaOf(<<SchemaField("constructor", "text", Bool(TRUE), Undef)>>),
     SchemaOf(<<SchemaField("project", "text", Bool(TRUE), Undef),
                SchemaField("constructor", "date", Bool(TRUE), Undef)>>),
     SchemaOf(<<>>),
     Obj("sections" :> Arr(<<Obj("id" :> Str("main"))>>)),
     EmptyObj,
     Null >>

RouteDataValues ==
  << Obj("project" :> Str("Alpha")),
     Obj(("project" :> Str("Alpha")) @@ ("count" :> Num(3)) @@ ("notes" :> Str(""))),
     Obj(("project" :> Str("")) @@ ("count" :> Num(0))),
     Obj(("project" :> Null) @@ ("count" :> Str("many"))),
     Obj(("items" :> Arr(<<>>)) @@ ("constructor" :> Str("Ann"))),
     Obj("items" :> Str("none")),
     EmptyObj,
     Undef >>

InitRoute ==
  /\ \E i \in 1..Len(SchemaValues) : schema = SchemaValues[i]
  /\ \E i \in 1..Len(RouteDataValues) : data = RouteDataValues[i]
  /\ structure = StructureValues[1]
  /\ content = ContentValues[1]
  /\ today = Days[1]
  /\ out = NoCalls
  /\ NoForm
  /\ session = Undef /\ uploads = {} /\ analyses = {} /\ creates = {}
  /\ templateRows = <<OwnedBy("u1", TemplateRecord)>>
  /\ NoDocuments /\ poll = NoPoll
  /\ path = Undef /\ template = Undef /\ boilerplate = Undef /\ condition = Undef
  /\ item = Undef

\* validateUserData(userData, template.schema_json)
CallValidateUserData ==
  /\ ~Called("validateUserData")
  /\ ~IsNullish(data)
  /\ Record("validateUserData", ValidateUserData(data, schema))
  /\ UNCHANGED <<schema, formVars, sessionVars>>
  /\ UNCHANGED <<path, template, data, boilerplate, condition, item, structure,
                 content, today>>

\* POST /api/documents/generate, with a templateId and a name
PostGenerate ==
  /\ ~Called("POST /generate")
  /\ \E caller \in Users, id \in 0..Len(templateRows) :
     \E calls \in {GenerateCalls(caller, id)} :
     \E stored, saved, signed \in Outcomes(calls, "generateDocument") :
       /\ out' = Attributed(caller, "POST /generate",
                            Piped(calls, "POST /generate", "generateDocument",
                                  stored, saved, signed)) @@ out
       /\ files' = Uploaded(calls, "generateDocument", stored, caller)
       /\ documentRows' =
            IF RowWritten(calls, "generateDocument", stored, saved)
              THEN Append(documentRows, DocumentRowOf(caller, id))
            ELSE documentRows
  /\ UNCHANGED <<session, uploads, analyses, templateVars, poll, schema, formVars>>
  /\ UNCHANGED <<path, template, data, boilerplate, condition, item, structure,
                 content, today>>

\* PUT /api/documents/:documentId/regenerate
PutRegenerate ==
  /\ ~Called("PUT /regenerate")
  /\ \E caller \in Users, id \in 0..Len(documentRows) :
     \E calls \in {RegenerateCalls(caller, id)} :
     \E stored, saved, signed \in Outcomes(calls, "regenerate") :
       /\ out' = Attributed(caller, "PUT /regenerate",
                            Piped(calls, "PUT /regenerate", "regenerate",
                                  stored, saved, signed)) @@ out
       /\ files' = Uploaded(calls, "regenerate", stored, caller)
       /\ documentRows' =
            IF RowWritten(calls, "regenerate", stored, saved)
              THEN [documentRows EXCEPT ![id] = Regenerated(@, caller)]
            ELSE documentRows
  /\ UNCHANGED <<session, uploads, analyses, templateVars, poll, schema, formVars>>
  /\ UNCHANGED <<path, template, data, boilerplate, condition, item, structure,
                 content, today>>

NextRoute == CallValidateUserData \/ PostGenerate \/ PutRegenerate

SpecRoute == InitRoute /\ [][NextRoute]_vars

\* the fields of a schema, section after section
SchemaFields(sch) ==
  IF IsNullish(sch) \/ Field(sch, "sections").t # "array" THEN <<>>
  ELSE Flatten([k \in 1..Len(Field(sch, "sections").v) |->
                  IF Field(Field(sch, "sections").v[k], "fields").t = "array"
                    THEN Field(Field(sch, "sections").v[k], "fields").v
                  ELSE <<>>])

\* the data record has a value under the key
HasValue(d, id) == d.t = "object" /\ id \in DOMAIN d.v /\ ~IsNullish(d.v[id])

\* a field marked required has no value in the data record
MissesRequired(sch, d) ==
  \E i \in 1..Len(SchemaFields(sch)) :
    /\ Truthy(Field(SchemaFields(sch)[i], "required"))
    /\ ~HasValue(d, StringOf(Field(SchemaFields(sch)[i], "id")))

\* validateUserData answered valid
AnsweredValid ==
  /\ Called("validateUserData")
  /\ out["validateUserData"].t = "validation"
  /\ out["validateUserData"].valid

\* C17: validateUserData answers valid only if every field marked required in
\* the schema has a value in the data record, and neither route reaches
\* generateDocument for a record that misses a required field
C17_RequiredNeverFailsOpen ==
  MissesRequired(schema, data) =>
    /\ ~AnsweredValid
    /\ ~Called("generateDocument")
    /\ ~Called("regenerate")

\* a required field bears a name every object inherits a property of
InheritedFieldId ==
  \E i \in 1..Len(SchemaFields(schema)) :
    /\ Truthy(Field(SchemaFields(schema)[i], "required"))
    /\ StringOf(Field(SchemaFields(schema)[i], "id")) \in InheritedKeys

\* the same for schemas whose required fields bear no such name
OwnRequiredNeverFailsOpen ==
  (MissesRequired(schema, data) /\ ~InheritedFieldId) =>
    /\ ~AnsweredValid
    /\ ~Called("generateDocument")
    /\ ~Called("regenerate")

\* both routes have generated a document for a record that holds every
\* required field
RoutesGenerated ==
  /\ Len(SchemaFields(schema)) > 1
  /\ ~MissesRequired(schema, data)
  /\ AnsweredValid
  /\ Called("generateDocument") /\ Called("regenerate")
  /\ out["POST /generate"].status = 201


---------------------------------------------------------------------------
(* Anomalies met during generation *)

\* the sections of a structure that the renderers do not skip
KeptSections(st) ==
  SelectSeq(st.v["sections"].v, LAMBDA sec : ~IsHeaderOrFooter(sec))

\* some item of a kept section satisfies P
SomeItem(st, P(_)) ==
  /\ WellFormedStructure(st)
  /\ \E k \in 1..Len(KeptSections(st)) :
       \E i \in 1..Len(KeptSections(st)[k].v["content"].v) :
         P(KeptSections(st)[k].v["content"].v[i])

\* the switch on the type is reached with a type it does not know
MeetsUnknownType(st, d) ==
  SomeItem(st, LAMBDA it : HasUnknownType(it) /\ ~ConditionFails(it, d))

\* evaluateCondition is reached with an operator it does not know
MeetsUnknownOperator(st) ==
  SomeItem(st, LAMBDA it : /\ it.t = "object"
                           /\ Truthy(Field(it, "condition"))
                           /\ Truthy(Field(Field(it, "condition"), "field"))
                           /\ ~IsKnownOperator(Field(Field(it, "condition"), "operator")))

\* a placeholder was left as it stood in a text of the tree
HasUnresolved(tree) ==
  \E k \in 1..Len(tree) : \E n \in 1..Len(tree[k]) : StrIncludes(tree[k][n].text, "{{")

\* the advisory warnings attached to a result
Attached(result) == IF "warnings" \in DOMAIN result THEN result.warnings ELSE <<>>

\* what the call wrote to the console
Logged(result) == IF "console" \in DOMAIN result THEN result.console ELSE <<>>

\* generateDocument returned a document for a structure with an anomaly in it
DocxMetAnomaly ==
  /\ GeneratedToday
  /\ out["generateDocument"].t = "Document"
  /\ \/ MeetsUnknownType(structure, data)
     \/ MeetsUnknownOperator(structure)
     \/ HasUnresolved(DocxOutline(out["generateDocument"]))

\* generateHtmlPreview returned a preview for a structure with an anomaly in it
PreviewMetAnomaly ==
  /\ Called("generateHtmlPreview")
  /\ ~PreviewFailed(out["generateHtmlPreview"])
  /\ \/ MeetsUnknownType(structure, data)
     \/ MeetsUnknownOperator(structure)
     \/ HasUnresolved(HtmlOutline(out["generateHtmlPreview"]))

\* C18: an unresolved placeholder, an unknown content-item type and an unknown
\* condition operator met during generation are each reported as a warning
\* attached to the result returned to the caller, by generateDocument and by
\* generateHtmlPreview
C18_AnomaliesReported ==
  /\ DocxMetAnomaly => Attached(out["generateDocument"]) # <<>>
  /\ PreviewMetAnomaly => Attached(out["generateHtmlPreview"]) # <<>>

\* the same with a line on the console counted as the report
AnomaliesSignalled ==
  /\ DocxMetAnomaly => Logged(out["generateDocument"]) # <<>>
  /\ PreviewMetAnomaly => Logged(out["generateHtmlPreview"]) # <<>>

\* generateDocument writes a line to the console for an unknown type, and only
\* for an unknown type
UnknownTypeLogged ==
  (GeneratedToday /\ out["generateDocument"].t = "Document" /\ WellFormedStructure(structure))
    => /\ MeetsUnknownType(structure, data) => Logged(out["generateDocument"]) # <<>>
       /\ \A i \in 1..Len(Logged(out["generateDocument"])) :
            StartsWith(Logged(out["generateDocument"])[i], "Unknown content type: ")
       /\ Logged(out["generateDocument"]) # <<>> => ~SameValue(Known(structure), structure)

\* both renderers kept the paragraph behind the unknown operator, its
\* placeholder unresolved, and nothing was written to the console
AnomaliesObserved ==
  /\ SameValue(structure, StructureValues[12])
  /\ DocxMetAnomaly /\ PreviewMetAnomaly
  /\ HasUnresolved(DocxOutline(out["generateDocument"]))
  /\ HasUnresolved(HtmlOutline(out["generateHtmlPreview"]))
  /\ Logged(out["generateDocument"]) = <<>>


---------------------------------------------------------------------------
(* routes/uploadSession.js: one upload session, its requests in flight.  A
   handler runs up to its next await of the database or the storage in one
   step; uploads holds the upload requests that wait for the storage, analyses
   the analyze requests that wait for the status update and the analyses that
   run in the background. *)

MaxInFlight == 2

\* the longest prefix of decimal digits
RECURSIVE LeadingDigits(_)
LeadingDigits(s) ==
  IF s = "" \/ ~IsDigit(Char(s, 1)) THEN ""
  ELSE Char(s, 1) \o LeadingDigits(SubSeq(s, 2, Len(s)))

\* the digits after an optional sign
Unsigned(u) == IF u # "" /\ Char(u, 1) \in {"-", "+"} THEN Substring(u, 1) ELSE u

\* parseInt(s, 10) of a trimmed string
ParseTrimmed(u) ==
  IF LeadingDigits(Unsigned(u)) = "" THEN NaN
  ELSE IF Char(u, 1) = "-" THEN Finite(0 - DigitsToNat(LeadingDigits(Unsigned(u)), 0))
  ELSE Finite(DigitsToNat(LeadingDigits(Unsigned(u)), 0))

\* parseInt(req.body.fileIndex, 10)
ParseInt(x) == IF x.t = "undefined" THEN NaN ELSE ParseTrimmed(Trim(StringOf(x)))

\* isNaN(fileIndex) || fileIndex < 0 || fileIndex > 2
InvalidFileIndex(fileIndex) == fileIndex.nan \/ fileIndex.n < 0 \/ fileIndex.n > 2

\* the row inserted by /create
\* the callers of POST /create
Owners == {"u1"}

\* from('upload_sessions').select('*').eq('id', sessionId).eq('user_id', userId)
\*   .single()
SessionOf(caller) ==
  IF session.t = "object" /\ IsStr(Field(session, "user_id"), caller) THEN session ELSE Undef

\* insert({ user_id: userId, status: 'uploading', file_urls: [] })
NewSession(userId) ==
  Obj(("user_id" :> Str(userId)) @@ ("status" :> Str("uploading")) @@ ("file_urls" :> Arr(<<>>))
      @@ ("schema_json" :> Null) @@ ("content_json" :> Null) @@ ("structure_json" :> Null)
      @@ ("analysis_log" :> Null))

\* update({ status }) of the row
WithStatus(row, status) == Obj(("status" :> Str(status)) @@ row.v)

\* update({ file_urls }) of the row
WithFileUrls(row, urls) == Obj(("file_urls" :> urls) @@ row.v)

\* currentUrls[fileIndex] = url, as the array is stored: the holes are null
UrlSet(currentUrls, fileIndex, url) ==
  Arr([k \in 1..(IF Len(currentUrls.v) > fileIndex THEN Len(currentUrls.v) ELSE fileIndex + 1)
         |-> IF k = fileIndex + 1 THEN Str(url)
             ELSE IF k <= Len(currentUrls.v) THEN currentUrls.v[k]
             ELSE Null])

\* fileUrls.length !== 3 || fileUrls.some((url) => !url)
Incomplete(fileUrls) ==
  Len(fileUrls.v) # 3 \/ \E k \in 1..Len(fileUrls.v) : ~Truthy(fileUrls.v[k])

\* what req.body.fileIndex holds
FileIndexValues == <<Str("0"), Str("1"), Str("2"), Str("3"), Str("-1"), Str("first"), Undef>>

\* the URLs the storage answers with
UploadUrls == {"uploads/u1/a.docx"}

InitSession ==
  /\ NoSession
  /\ out = NoCalls
  /\ schema = Undef /\ NoForm
  /\ path = Undef /\ template = Undef /\ data = Undef /\ boilerplate = Undef
  /\ condition = Undef /\ item = Undef /\ structure = Undef /\ content = Undef
  /\ today = Days[1]

\* POST /create
CreateSession ==
  /\ session.t = "undefined"
  /\ \E caller \in Owners : session' = NewSession(caller)
  /\ Record("POST /create", Response(200, ""))
  /\ UNCHANGED <<uploads, analyses, templateVars, documentVars, poll, schema, formVars>>
  /\ UNCHANGED <<path, template, data, boilerplate, condition, item, structure,
                 content, today>>

\* the answer of POST /:sessionId/upload before the file is stored, "" when
\* the request goes on to store the file
UploadRefusal(fileIndex, valid, caller) ==
  IF InvalidFileIndex(fileIndex) THEN "INVALID_FILE_INDEX"
  ELSE IF ~valid THEN "INVALID_FILE"
  ELSE IF SessionOf(caller).t # "object" THEN "SESSION_NOT_FOUND"
  ELSE IF ~IsStr(Field(session, "status"), "uploading") THEN "INVALID_SESSION_STATUS"
  ELSE ""

\* POST /:sessionId/upload, refused with a 400 or a 404
UploadRefused ==
  /\ \E i \in 1..Len(FileIndexValues), valid \in BOOLEAN, caller \in Users :
       /\ UploadRefusal(ParseInt(FileIndexValues[i]), valid, caller) # ""
       /\ Record("POST /upload",
                 Response(IF UploadRefusal(ParseInt(FileIndexValues[i]), valid, caller)
                             = "SESSION_NOT_FOUND" THEN 404 ELSE 400,
                          UploadRefusal(ParseInt(FileIndexValues[i]), valid, caller)))
  /\ UNCHANGED <<session, uploads, analyses, templateVars, documentVars, poll,
                 schema, formVars>>
  /\ UNCHANGED <<path, template, data, boilerplate, condition, item, structure,
                 content, today>>

\* POST /:sessionId/upload up to await uploadFile(...): the session is read
\* and the request waits for the storage with what it read
UploadRead ==
  /\ Cardinality(uploads) < MaxInFlight
  /\ \E i \in 1..Len(FileIndexValues), caller \in Users :
       /\ UploadRefusal(ParseInt(FileIndexValues[i]), TRUE, caller) = ""
       /\ uploads' = uploads \cup
            {[caller |-> caller, fileIndex |-> ParseInt(FileIndexValues[i]).n,
              currentUrls |-> Or(Field(session, "file_urls"),
                                 Arr(<<Str(""), Str(""), Str("")>>))]}
  /\ UNCHANGED <<session, analyses, out, templateVars, documentVars, poll, schema, formVars>>
  /\ UNCHANGED <<path, template, data, boilerplate, condition, item, structure,
                 content, today>>

\* POST /:sessionId/upload from the answer of the storage on: the URL is put
\* into the array the request read and the array is written to the row
UploadWrite ==
  /\ \E u \in uploads, url \in UploadUrls :
       /\ uploads' = uploads \ {u}
       /\ session' = WithFileUrls(session, UrlSet(u.currentUrls, u.fileIndex, url))
       /\ Record("POST /upload", Response(200, ""))
  /\ UNCHANGED <<analyses, templateVars, documentVars, poll, schema, formVars>>
  /\ UNCHANGED <<path, template, data, boilerplate, condition, item, structure,
                 content, today>>

\* uploadFile throws: next(error)
UploadFails ==
  /\ \E u \in uploads : uploads' = uploads \ {u}
  /\ Record("POST /upload", Response(500, "Failed to upload file"))
  /\ UNCHANGED <<session, analyses, templateVars, documentVars, poll, schema, formVars>>
  /\ UNCHANGED <<path, template, data, boilerplate, condition, item, structure,
                 content, today>>

\* POST /:sessionId/analyze, refused: no session, or not all three files
AnalyzeRefused ==
  /\ \E caller \in Users :
       /\ IF SessionOf(caller).t # "object" THEN TRUE
          ELSE Incomplete(Or(Field(session, "file_urls"), Arr(<<>>)))
       /\ Record("POST /analyze",
                 IF SessionOf(caller).t # "object" THEN Response(404, "SESSION_NOT_FOUND")
                 ELSE Response(400, "INCOMPLETE_UPLOAD"))
  /\ UNCHANGED <<session, uploads, analyses, templateVars, documentVars, poll,
                 schema, formVars>>
  /\ UNCHANGED <<path, template, data, boilerplate, condition, item, structure,
                 content, today>>

\* POST /:sessionId/analyze up to await ...update({ status: 'analyzing' })
AnalyzeRead ==
  /\ Cardinality(analyses) < MaxInFlight
  /\ session.t = "object"
  /\ ~Incomplete(Or(Field(session, "file_urls"), Arr(<<>>)))
  /\ \E caller \in Users :
       /\ SessionOf(caller).t = "object"
       /\ analyses' = analyses \cup
            {[stage |-> "checked", caller |-> caller,
              fileUrls |-> Or(Field(session, "file_urls"), Arr(<<>>))]}
  /\ UNCHANGED <<session, uploads, out, templateVars, documentVars, poll, schema, formVars>>
  /\ UNCHANGED <<path, template, data, boilerplate, condition, item, structure,
                 content, today>>

\* POST /:sessionId/analyze from the status update on: the status is written,
\* analyzeSessionDocuments(sessionId, fileUrls, ...) is started and the
\* request is answered
AnalyzeUpdate ==
  /\ \E a \in analyses :
       /\ a.stage = "checked"
       /\ analyses' = (analyses \ {a}) \cup {[a EXCEPT !.stage = "running"]}
       /\ session' = WithStatus(session, "analyzing")
       /\ out' = ("POST /analyze" :> Response(200, ""))
                 @@ ("analyzeSessionDocuments" :> a.fileUrls) @@ out
  /\ UNCHANGED <<uploads, templateVars, documentVars, poll, schema, formVars>>
  /\ UNCHANGED <<path, template, data, boilerplate, condition, item, structure,
                 content, today>>

\* what analyzeDocuments returns: schema_json: analysisResult.schema_json || {},
\* and so for the other two
AnalysisResult ==
  ("schema_json" :> EmptyObj) @@ ("content_json" :> EmptyObj)
  @@ ("structure_json" :> EmptyObj) @@ ("analysis_log" :> Str("analysed"))

\* update({ status: 'review', schema_json, content_json, structure_json, ... })
WithAnalysis(row) == Obj(("status" :> Str("review")) @@ AnalysisResult @@ row.v)

\* update({ status: 'failed', analysis_log: `Analysis failed: ${error.message}` })
WithFailure(row) ==
  Obj(("status" :> Str("failed")) @@ ("analysis_log" :> Str("Analysis failed")) @@ row.v)

\* analyzeSessionDocuments throws and the catch of the analyze handler builds
\* its update of the row; the update is not awaited, so whether it is ever
\* sent is left to the database client
AnalysisFails ==
  /\ \E a \in analyses, sent \in BOOLEAN :
       /\ a.stage = "running"
       /\ analyses' = analyses \ {a}
       /\ session' = IF sent THEN WithFailure(session) ELSE session
  /\ UNCHANGED <<uploads, out, templateVars, documentVars, poll, schema, formVars>>
  /\ UNCHANGED <<path, template, data, boilerplate, condition, item, structure,
                 content, today>>

\* analyzeSessionDocuments comes to its update({ status: 'review', ... })
AnalysisDone ==
  /\ \E a \in analyses :
       /\ a.stage = "running"
       /\ analyses' = analyses \ {a}
       /\ session' = WithAnalysis(session)
  /\ UNCHANGED <<uploads, out, templateVars, documentVars, poll, schema, formVars>>
  /\ UNCHANGED <<path, template, data, boilerplate, condition, item, structure,
                 content, today>>

NextSession ==
  \/ CreateSession
  \/ UploadRefused
  \/ UploadRead
  \/ UploadWrite
  \/ UploadFails
  \/ AnalyzeRefused
  \/ AnalyzeRead
  \/ AnalyzeUpdate
  \/ AnalysisDone
  \/ AnalysisFails

SpecSession == InitSession /\ [][NextSession]_vars

\* the session is in the given status
InStatus(status) == session.t = "object" /\ IsStr(Field(session, "status"), status)

\* file_urls of the session has three entries, none of them empty
AllThreeUploaded == session.t = "object" /\ ~Incomplete(Field(session, "file_urls"))

\* the status is 'analyzing' only with all three files in the row
AnalyzingOnlyWhenComplete == InStatus("analyzing") => AllThreeUploaded

\* an analyze request on a session without its three files is answered
\* INCOMPLETE_UPLOAD, or SESSION_NOT_FOUND to another user, and leaves the
\* session as it was
IncompleteRefused ==
  [][(session.t = "object" /\ ~AllThreeUploaded /\ (AnalyzeRefused \/ AnalyzeRead))
       => (/\ out'["POST /analyze"] \in {Response(400, "INCOMPLETE_UPLOAD"),
                                        Response(404, "SESSION_NOT_FOUND")}
           /\ UNCHANGED sessionVars)]_vars

\* C19: the status of a session is 'analyzing' only if its file_urls has three
\* non-empty entries, and an analyze request on a session without them is
\* answered INCOMPLETE_UPLOAD and leaves the session as it was
C19_AnalyzingOnlyWhenComplete == []AnalyzingOnlyWhenComplete /\ IncompleteRefused

\* the array handed to the analysis has three non-empty entries
AnalysisOfThreeFiles ==
  /\ \A a \in analyses : ~Incomplete(a.fileUrls)
  /\ Called("analyzeSessionDocuments") => ~Incomplete(out["analyzeSessionDocuments"])

\* the analysis of a session with three uploaded files has started
AnalysisStarted ==
  /\ InStatus("analyzing") /\ AllThreeUploaded
  /\ uploads = {}
  /\ Called("analyzeSessionDocuments")
  /\ out["POST /analyze"].status = 200


---------------------------------------------------------------------------
(* The scope of a loop row *)

\* the data record with nothing left but the list the loop path names
ListOnly ==
  IF data.t # "object" THEN data
  ELSE Obj([k \in {LoopPath(Field(item, "loop"))} \cap DOMAIN data.v |-> data.v[k]])

\* the name in a template that is one placeholder and nothing else, "" for
\* any other template
PlaceholderName(tpl) ==
  IF tpl.t = "string" /\ Len(tpl.v) > 4 /\ StartsWith(tpl.v, "{{")
     /\ SubSeq(tpl.v, Len(tpl.v) - 1, Len(tpl.v)) = "}}"
     /\ ~StrIncludes(SubSeq(tpl.v, 3, Len(tpl.v) - 2), "{")
     /\ ~StrIncludes(SubSeq(tpl.v, 3, Len(tpl.v) - 2), "}")
     /\ ~StrIncludes(SubSeq(tpl.v, 3, Len(tpl.v) - 2), ".")
    THEN Trim(SubSeq(tpl.v, 3, Len(tpl.v) - 2))
  ELSE ""

\* row template j is a placeholder for a field that element i does not hold
NotInElement(i, j) ==
  /\ PlaceholderName(RowTemplates[j]) # ""
  /\ Walked(LoopSource[i], PlaceholderName(RowTemplates[j])).t = "undefined"

\* the rows are those of the same table over the list alone, and a placeholder
\* for a field the element does not hold stands as it was written
ElementScoped(rows, alone, escaped) ==
  /\ rows = alone
  /\ Len(rows) = Len(LoopSource)
  /\ \A i \in 1..Len(rows) : \A j \in 1..Len(rows[i]) :
       NotInElement(i, j) =>
         rows[i][j] = (IF escaped THEN EscapeString(RowTemplates[j].v) ELSE RowTemplates[j].v)

\* C20: in a loop table every row template is rendered against the current
\* element only: the rows do not depend on any field of the data record
\* outside the list, and a placeholder that names a field the element lacks is
\* not filled from the data record, whether or not the record has a field of
\* that name
C20_LoopRowsElementScoped ==
  IsLoopTable =>
    /\ (Called("createTable") /\ ~Threw(out["createTable"])) =>
         ElementScoped(DocxDataRows(out["createTable"]),
                       DocxDataRows(CreateTable(item, ListOnly, content)), FALSE)
    /\ (Called("renderHtmlContentItem") /\ ~Threw(out["renderHtmlContentItem"])) =>
         ElementScoped(HtmlDataRows(out["renderHtmlContentItem"]),
                       HtmlDataRows(RenderHtmlContentItem(item, ListOnly, content)), TRUE)

\* three elements, the second without a qty and the third null, in a record
\* that has a name and a qty of its own: both renderers leave {{qty}} and
\* {{name}} where the element has none
C20_Witness ==
  /\ IsLoopTable
  /\ Called("createTable") /\ Called("renderHtmlContentItem")
  /\ Len(LoopSource) = 3 /\ Len(RowTemplates) = 2
  /\ IsStr(Field(data, "name"), "TOP")
  /\ SameValue(Field(data, "qty"), Num(99))
  /\ DocxDataRows(out["createTable"])[2] = <<"a<b", "{{qty}} pcs">>
  /\ DocxDataRows(out["createTable"])[3] = <<"{{name}}", "{{qty}} pcs">>
  /\ HtmlDataRows(out["renderHtmlContentItem"])[3] = <<"{{name}}", "{{qty}} pcs">>


---------------------------------------------------------------------------
(* Conditions at every nesting depth *)

IsConditionalItem(it) == it.t = "object" /\ IsStr(Field(it, "type"), "conditional")

\* the items a conditional item holds
NestedItems(it) == IF HasItemList(it) THEN it.v["content"].v ELSE <<>>

\* the item without its condition
Unconditioned(it) == Obj([k \in DOMAIN it.v \ {"condition"} |-> it.v[k]])

\* the items that are to be rendered, in order: an item whose condition fails
\* gives none, a conditional item gives those of its content, at every depth
RECURSIVE ShownItems(_, _)
ShownItems(items, d) ==
  IF items = <<>> THEN <<>>
  ELSE (IF ConditionFails(Head(items), d) THEN <<>>
        ELSE IF IsConditionalItem(Head(items)) THEN ShownItems(NestedItems(Head(items)), d)
        ELSE <<Unconditioned(Head(items))>>)
       \o ShownItems(Tail(items), d)

\* the same with the condition of an item inside a conditional item looked at
\* only when that item is a conditional item itself
RECURSIVE GatedItems(_, _, _)
GatedItems(items, d, nested) ==
  IF items = <<>> THEN <<>>
  ELSE (IF (~nested \/ IsConditionalItem(Head(items))) /\ ConditionFails(Head(items), d)
          THEN <<>>
        ELSE IF IsConditionalItem(Head(items))
          THEN GatedItems(NestedItems(Head(items)), d, TRUE)
        ELSE <<Unconditioned(Head(items))>>)
       \o GatedItems(Tail(items), d, nested)

\* the structure with the items of every section replaced by those to render
Shown(st, d) ==
  Obj([st.v EXCEPT !["sections"] =
         Arr([k \in 1..Len(@.v) |->
                Obj([@.v[k].v EXCEPT !["content"] = Arr(ShownItems(@.v, d))])])])

Gated(st, d) ==
  Obj([st.v EXCEPT !["sections"] =
         Arr([k \in 1..Len(@.v) |->
                Obj([@.v[k].v EXCEPT !["content"] = Arr(GatedItems(@.v, d, FALSE))])])])

\* C21: every content item has its own condition evaluated at every nesting
\* depth: the content of a conditional item is expanded only when its
\* condition holds, and an item inside a conditional item whose own condition
\* fails is omitted like an item of the section; each renderer puts out what
\* it puts out for the flat list of the items that are to be rendered
C21_ConditionsAtEveryDepth ==
  WellFormedStructure(structure) =>
    /\ GeneratedToday => DocxRendersAs(Shown(structure, data))
    /\ Called("generateHtmlPreview") => PreviewRendersAs(Shown(structure, data))

\* the content of a conditional item is expanded only when its condition
\* holds, the conditions of the items inside it left aside
ConditionalGatesContent ==
  WellFormedStructure(structure) =>
    /\ GeneratedToday => DocxRendersAs(Gated(structure, data))
    /\ Called("generateHtmlPreview") => PreviewRendersAs(Gated(structure, data))

\* a conditional item whose condition holds, with an item inside it whose own
\* condition fails: both renderers put the inner item out
NestedConditionObserved ==
  /\ SameValue(structure, StructureValues[5])
  /\ SameValue(data, UserDataValues[1])
  /\ Called("generateDocument") /\ Called("generateHtmlPreview")
  /\ KindCount(DocxOutline(out["generateDocument"]), "paragraph") = <<2>>
  /\ KindCount(HtmlOutline(out["generateHtmlPreview"]), "paragraph") = <<2>>


---------------------------------------------------------------------------
(* Upload requests against each other and against the analyze request *)

\* file_urls of the row holds a URL at the position of file index k - 1
HasUrl(row, k) ==
  /\ row.t = "object"
  /\ Field(row, "file_urls").t = "array"
  /\ Len(Field(row, "file_urls").v) >= k
  /\ Truthy(Field(row, "file_urls").v[k])

\* an upload request writes file_urls in this step
UploadWrites == uploads' # uploads /\ session' # session

\* the upload request that writes has read the row as it now is
WritesWhatItRead ==
  \E u \in uploads : uploads' = uploads \ {u} /\ u.currentUrls = Field(session, "file_urls")

\* C22: upload requests for one session with different file indices all take
\* effect however they overlap: the write of one request never removes the
\* URL another request has stored at another index
C22_NoUploadLost ==
  [][UploadWrites => \A k \in 1..3 : HasUrl(session, k) => HasUrl(session', k)]_vars

\* the same for the request that wrote after reading the row as it still is
UnchangedRowKept ==
  [][(UploadWrites /\ WritesWhatItRead)
       => \A k \in 1..3 : HasUrl(session, k) => HasUrl(session', k)]_vars

\* C23: once the session has left 'uploading' no upload request changes
\* file_urls, also not a request that passed its status check before
C23_FileListFrozen ==
  [][(session.t = "object" /\ ~InStatus("uploading"))
       => Field(session', "file_urls") = Field(session, "file_urls")]_vars

\* no upload request gets past its status check after the session left
\* 'uploading'
LateUploadRefused ==
  [][(session.t = "object" /\ ~InStatus("uploading")) => uploads' \subseteq uploads]_vars


---------------------------------------------------------------------------
(* The life of an upload session after its uploads: the analysis, the review
   (routes/uploadSession.js) and the template made of it (routes/templates.js,
   POST /), with validateTemplateData of validation.js *)

MaxTemplates == 2

\* typeof x === 'object' for a value that is not null
IsObjectType(x) == x.t \in {"object", "array"}

\* !data.name || typeof data.name !== 'string' || data.name.trim().length < 3
NameTooShort(name) == ~Truthy(name) \/ name.t # "string" \/ Len(Trim(name.v)) < 3

\* data.name && data.name.length > 255
NameTooLong(name) == Truthy(name) /\ GreaterThan(Field(name, "length"), Num(255))

\* !data.schemaJson || typeof data.schemaJson !== 'object', and the two others
InvalidJson(x) == ~Truthy(x) \/ ~IsObjectType(x)

\* validateTemplateData(data)
ValidateTemplateData(d) ==
  Validation((IF NameTooShort(Field(d, "name"))
                THEN <<"Template name must be at least 3 characters">> ELSE <<>>)
             \o (IF NameTooLong(Field(d, "name"))
                   THEN <<"Template name must be less than 255 characters">> ELSE <<>>)
             \o (IF InvalidJson(Field(d, "schemaJson")) THEN <<"Invalid schema JSON">> ELSE <<>>)
             \o (IF InvalidJson(Field(d, "contentJson")) THEN <<"Invalid content JSON">> ELSE <<>>)
             \o (IF InvalidJson(Field(d, "structureJson"))
                   THEN <<"Invalid structure JSON">> ELSE <<>>))

\* { name, schemaJson: session.schema_json, contentJson: ..., structureJson: ... }
TemplateData(name, row) ==
  ObjOf(("name" :> name) @@ ("schemaJson" :> Field(row, "schema_json"))
        @@ ("contentJson" :> Field(row, "content_json"))
        @@ ("structureJson" :> Field(row, "structure_json")))

\* session.status !== 'review' && session.status !== 'completed'
NotReviewed(row) ==
  ~IsStr(Field(row, "status"), "review") /\ ~IsStr(Field(row, "status"), "completed")

\* a request that is let through whatever validateTemplateData answers
TemplateRefusalUnvalidated(hasSessionId, name, caller) ==
  IF ~hasSessionId \/ ~Truthy(name) THEN "MISSING_REQUIRED_FIELDS"
  ELSE IF SessionOf(caller).t # "object" THEN "SESSION_NOT_FOUND"
  ELSE IF NotReviewed(session) THEN "INVALID_SESSION_STATUS"
  ELSE ""

\* the answer of POST /api/templates before anything is inserted, "" when the
\* request goes on to insert
TemplateRefusal(hasSessionId, name, caller) ==
  IF ~hasSessionId \/ ~Truthy(name) THEN "MISSING_REQUIRED_FIELDS"
  ELSE IF SessionOf(caller).t # "object" THEN "SESSION_NOT_FOUND"
  ELSE IF NotReviewed(session) THEN "INVALID_SESSION_STATUS"
  ELSE IF ~ValidateTemplateData(TemplateData(name, session)).valid
    THEN "INVALID_TEMPLATE_DATA"
  ELSE ""

\* insert({ name: name.trim(), schema_json: session.schema_json, ... })
TemplateRowOf(caller, name, row) ==
  Obj(("user_id" :> Str(caller)) @@ ("name" :> Str(Trim(name.v)))
      @@ ("schema_json" :> Field(row, "schema_json"))
      @@ ("content_json" :> Field(row, "content_json"))
      @@ ("structure_json" :> Field(row, "structure_json")) @@ ("status" :> Str("active")))

\* update({ schema_json: schemaJson, ..., status: 'review' }): a key whose
\* value is undefined is not sent
Reviewed(row, body) ==
  Obj(("status" :> Str("review"))
      @@ [k \in {c \in DOMAIN body : body[c].t # "undefined"} |-> body[k]]
      @@ row.v)

\* what req.body.name holds
NameValues == <<Undef, Str("ab"), Str(" Plan A ")>>

\* the bodies of PATCH /:sessionId/review
ReviewBodies ==
  << ("schema_json" :> EmptyObj) @@ ("content_json" :> EmptyObj)
       @@ ("structure_json" :> EmptyObj),
     ("schema_json" :> Undef) @@ ("content_json" :> Undef) @@ ("structure_json" :> Undef),
     ("schema_json" :> Null) @@ ("content_json" :> Undef) @@ ("structure_json" :> Undef) >>

\* a session after its uploads: all three files stored, or none
InitLifecycle ==
  /\ \/ session = NewSession("u1")
     \/ session = WithFileUrls(NewSession("u1"), Arr(<<Str("uploads/u1/a.docx"),
                                                 Str("uploads/u1/a.docx"),
                                                 Str("uploads/u1/a.docx")>>))
  /\ uploads = {} /\ analyses = {} /\ NoTemplates
  /\ NoDocuments /\ poll = NoPoll
  /\ out = NoCalls
  /\ schema = Undef /\ NoForm
  /\ path = Undef /\ template = Undef /\ data = Undef /\ boilerplate = Undef
  /\ condition = Undef /\ item = Undef /\ structure = Undef /\ content = Undef
  /\ today = Days[1]

\* PATCH /:sessionId/review
PatchReview ==
  /\ \E b \in 1..Len(ReviewBodies), caller \in Users :
       /\ session' = IF SessionOf(caller).t = "object"
                       THEN Reviewed(session, ReviewBodies[b]) ELSE session
       /\ Record("PATCH /review", AnsweredTo(caller, Response(200, "")))
  /\ UNCHANGED <<uploads, analyses, templateVars, documentVars, poll, schema, formVars>>
  /\ UNCHANGED <<path, template, data, boilerplate, condition, item, structure,
                 content, today>>

\* POST /api/templates, refused with a 400 or a 404
CreateTemplateRefused ==
  /\ \E hasSessionId \in BOOLEAN, n \in 1..Len(NameValues), caller \in Users :
       /\ TemplateRefusal(hasSessionId, NameValues[n], caller) # ""
       /\ Record("POST /templates",
                 Response(IF TemplateRefusal(hasSessionId, NameValues[n], caller)
                               = "SESSION_NOT_FOUND"
                            THEN 404 ELSE 400,
                          TemplateRefusal(hasSessionId, NameValues[n], caller)))
  /\ UNCHANGED <<session, uploads, analyses, templateVars, documentVars, poll,
                 schema, formVars>>
  /\ UNCHANGED <<path, template, data, boilerplate, condition, item, structure,
                 content, today>>

\* POST /api/templates up to await ...insert(...): the session is read and
\* checked, and the request goes on with the row it read
CreateTemplateRead ==
  /\ Cardinality(creates) < MaxInFlight
  /\ Len(templateRows) + Cardinality(creates) < MaxTemplates
  /\ \E n \in 1..Len(NameValues), caller \in Users :
       /\ TemplateRefusal(TRUE, NameValues[n], caller) = ""
       /\ creates' = creates \cup {[stage |-> "validated", caller |-> caller,
                                    name |-> NameValues[n], row |-> session]}
  /\ UNCHANGED <<session, uploads, analyses, templateRows, out, documentVars, poll,
                 schema, formVars>>
  /\ UNCHANGED <<path, template, data, boilerplate, condition, item, structure,
                 content, today>>

\* POST /api/templates: the template is inserted and the request awaits its
\* update of the session
CreateTemplateInsert ==
  /\ \E c \in creates :
       /\ c.stage = "validated"
       /\ templateRows' = Append(templateRows, TemplateRowOf(c.caller, c.name, c.row))
       /\ creates' = (creates \ {c}) \cup {[c EXCEPT !.stage = "inserted"]}
  /\ UNCHANGED <<session, uploads, analyses, out, documentVars, poll, schema, formVars>>
  /\ UNCHANGED <<path, template, data, boilerplate, condition, item, structure,
                 content, today>>

\* POST /api/templates: createError, throw new Error, next(error)
CreateTemplateFails ==
  /\ \E c \in creates :
       /\ c.stage = "validated"
       /\ creates' = creates \ {c}
  /\ Record("POST /templates", Response(500, "Failed to create template"))
  /\ UNCHANGED <<session, uploads, analyses, templateRows, documentVars, poll, schema, formVars>>
  /\ UNCHANGED <<path, template, data, boilerplate, condition, item, structure,
                 content, today>>

\* POST /api/templates: update({ status: 'completed' }) and the 201 answer
CreateTemplateComplete ==
  /\ \E c \in creates :
       /\ c.stage = "inserted"
       /\ creates' = creates \ {c}
       /\ session' = IF session.t = "object" THEN WithStatus(session, "completed") ELSE session
  /\ Record("POST /templates", Response(201, ""))
  /\ UNCHANGED <<uploads, analyses, templateRows, documentVars, poll, schema, formVars>>
  /\ UNCHANGED <<path, template, data, boilerplate, condition, item, structure,
                 content, today>>

NextLifecycle ==
  \/ AnalyzeRefused
  \/ AnalyzeRead
  \/ AnalyzeUpdate
  \/ AnalysisDone
  \/ AnalysisFails
  \/ PatchReview
  \/ CreateTemplateRefused
  \/ CreateTemplateRead
  \/ CreateTemplateInsert
  \/ CreateTemplateFails
  \/ CreateTemplateComplete

SpecLifecycle == InitLifecycle /\ [][NextLifecycle]_vars

\* an awaited update is answered, and a background analysis ends or throws
FairLifecycle ==
  /\ SpecLifecycle
  /\ WF_vars(AnalyzeUpdate)
  /\ WF_vars(AnalysisDone \/ AnalysisFails)

\* the place of a status on the way uploading, analyzing, review or failed,
\* completed
StatusRank(status) ==
  CASE status = "uploading" -> 1
    [] status = "analyzing" -> 2
    [] status \in {"review", "failed"} -> 3
    [] status = "completed" -> 4
    [] OTHER -> 0

\* C24: the status of a session only moves forward along uploading,
\* analyzing, review or failed, completed: no step takes a session in
\* 'review', 'completed' or 'failed' back to 'analyzing', or a 'completed'
\* session back to 'review'
C24_StatusMovesForward ==
  [][StatusRank(Field(session, "status").v) <= StatusRank(Field(session', "status").v)]_vars

\* a session in 'uploading' is not taken back there from any other status
NeverBackToUploading ==
  [][~InStatus("uploading") => ~InStatus("uploading")']_vars

\* a session in 'review' has its three JSON artifacts
ReviewHasArtifacts ==
  InStatus("review") =>
    /\ ~InvalidJson(Field(session, "schema_json"))
    /\ ~InvalidJson(Field(session, "content_json"))
    /\ ~InvalidJson(Field(session, "structure_json"))

\* a session in 'failed' has its analysis_log
FailedHasLog == InStatus("failed") => Truthy(Field(session, "analysis_log"))

\* C25: a session whose analysis was started leaves 'analyzing' in the end,
\* for 'review' with its three JSON artifacts stored or for 'failed' with an
\* analysis_log, and a session in 'review' always has its schema, content and
\* structure
C25_AnalysisEnds ==
  /\ InStatus("analyzing") ~> ~InStatus("analyzing")
  /\ []ReviewHasArtifacts
  /\ []FailedHasLog

\* a session that leaves 'analyzing' by the end of its analysis has the three
\* artifacts in 'review' and the log in 'failed'
AnalysisStoresResult ==
  [][(InStatus("analyzing") /\ analyses' # analyses /\ ~InStatus("analyzing")')
       => (ReviewHasArtifacts' /\ FailedHasLog')]_vars


\* a session in 'analyzing' leaves it in the end
AnalyzingEnds == InStatus("analyzing") ~> ~InStatus("analyzing")


\* a request of POST /api/templates that passed its checks read a session of
\* its caller, in 'review' or 'completed', that validateTemplateData accepts
\* with the name
Accepted(c) ==
  /\ IsStr(Field(c.row, "user_id"), c.caller)
  /\ ~NotReviewed(c.row)
  /\ ValidateTemplateData(TemplateData(c.name, c.row)).valid

\* a template row holds what validateTemplateData accepts
ValidTemplateRow(row) ==
  /\ ~NameTooShort(Field(row, "name")) /\ ~NameTooLong(Field(row, "name"))
  /\ ~InvalidJson(Field(row, "schema_json"))
  /\ ~InvalidJson(Field(row, "content_json"))
  /\ ~InvalidJson(Field(row, "structure_json"))

\* the step is an answer of POST /api/templates other than a 201
TemplateRejected ==
  /\ out' # out
  /\ Called("POST /templates")'
  /\ out'["POST /templates"].status # 201
  /\ out' = ("POST /templates" :> out'["POST /templates"]) @@ out

\* every request on its way to the insert was accepted, and every template
\* is a valid one
InsertsOnlyAccepted ==
  /\ \A c \in creates : Accepted(c)
  /\ \A i \in 1..Len(templateRows) : ValidTemplateRow(templateRows[i])

\* the session is set to 'completed' only with a template inserted
CompletedAfterInsert ==
  [][(~InStatus("completed") /\ InStatus("completed")') => Len(templateRows) >= 1]_vars

\* a rejected request leaves the templates and the status of the session as
\* they were
RejectedChangesNothing ==
  [][TemplateRejected => (templateRows' = templateRows
                          /\ Field(session', "status") = Field(session, "status"))]_vars

---------------------------------------------------------------------------
(* The validation of the server against the visibility of the form *)

\* the form shows the field for the record (FormRenderer.jsx: isVisible)
FormShows(f, d) == Truthy(EvaluateConditional(Field(f, "conditional"), d))

\* the field as the form lets it be submitted: filled if it is required and
\* shown, of its type if it has a value, absent if it is hidden
SubmittableField(f, d) ==
  IF FormShows(f, d)
    THEN /\ Truthy(Field(f, "required")) => Truthy(Prop(d, StringOf(Field(f, "id"))))
         /\ TypeChecked(Field(f, "type"), Field(f, "validation"),
                        Prop(d, StringOf(Field(f, "id"))), StringOf(Field(f, "label")))
              = List(<<>>)
  ELSE StringOf(Field(f, "id")) \notin DOMAIN d.v

\* a record the form lets the user submit
Submittable(sch, d) ==
  /\ d.t = "object"
  /\ \A i \in 1..Len(SchemaFields(sch)) : SubmittableField(SchemaFields(sch)[i], d)

\* a field of the schema is hidden for the record
SomeHidden(sch, d) ==
  \E i \in 1..Len(SchemaFields(sch)) : ~FormShows(SchemaFields(sch)[i], d)

\* C30: validateUserData requires a required field only when the field is
\* visible under its conditional clause: every record the form lets the user
\* submit, with all visible required fields filled and the hidden fields
\* absent, is accepted by validateUserData
C30_ValidationAgreesWithForm ==
  (Called("validateUserData") /\ Submittable(schema, data)) => AnsweredValid

\* the same for the records that hide no field of the schema
AllShownAccepted ==
  (Called("validateUserData") /\ Submittable(schema, data) /\ ~SomeHidden(schema, data))
    => AnsweredValid

\* a record that hides a required field was validated
HiddenRequiredValidated ==
  /\ Called("validateUserData")
  /\ Submittable(schema, data)
  /\ SomeHidden(schema, data)


---------------------------------------------------------------------------
(* CreateTemplate.jsx: handleAnalyze and its polling of the status *)

\* const maxAttempts = 30
maxAttempts == 30

MaxRuns == 2
MaxPending == 2
MaxTicks == 31

\* what uploadSessionsApi.getStatus(sessionId) resolves to, by its status;
\* "" when it rejects
StatusAnswers == {"analyzing", "review", "completed", "failed", ""}

\* a call of handleAnalyze: its attempts, whether its interval runs, and the
\* status requests of its callbacks that wait for their answer
NewRun == [stage |-> "starting", attempts |-> 0, pending |-> 0]

\* clearInterval(pollInterval)
Cleared(run) == [run EXCEPT !.stage = "cleared"]

\* the callback of the interval from the answer of getStatus on
Answered(page, r, answer) ==
  IF answer \in {"review", "completed"}
    THEN [page EXCEPT !.runs[r] = Cleared(@), !.analysisResult = Str(answer),
                      !.analyzing = FALSE, !.step = 3]
  ELSE IF answer \in {"failed", ""} \/ page.runs[r].attempts >= maxAttempts
    THEN [page EXCEPT !.runs[r] = Cleared(@), !.analyzing = FALSE]
  ELSE page

\* the page after handleStartUpload: step 2, nothing analysed
InitPoll ==
  /\ poll = [NoPoll EXCEPT !.step = 2]
  /\ session = Undef /\ uploads = {} /\ analyses = {} /\ NoTemplates /\ NoDocuments
  /\ out = NoCalls
  /\ schema = Undef /\ NoForm
  /\ path = Undef /\ template = Undef /\ data = Undef /\ boilerplate = Undef
  /\ condition = Undef /\ item = Undef /\ structure = Undef /\ content = Undef
  /\ today = Days[1]

\* handleAnalyze up to await uploadSessionsApi.analyze(sessionId); the button
\* is there when step === 2 && !analyzing
HandleAnalyze ==
  /\ poll.step = 2 /\ ~poll.analyzing
  /\ Len(poll.runs) < MaxRuns
  /\ poll' = [poll EXCEPT !.analyzing = TRUE, !.runs = Append(@, NewRun)]
  /\ UNCHANGED <<session, uploads, analyses, templateVars, documentVars, out, schema, formVars>>
  /\ UNCHANGED <<path, template, data, boilerplate, condition, item, structure,
                 content, today>>

\* handleAnalyze after the await: setInterval, or the catch
AnalyzeAnswered ==
  /\ \E r \in 1..Len(poll.runs), ok \in BOOLEAN :
       /\ poll.runs[r].stage = "starting"
       /\ poll' = IF ok THEN [poll EXCEPT !.runs[r].stage = "polling"]
                  ELSE [poll EXCEPT !.runs[r] = Cleared(@), !.analyzing = FALSE]
  /\ UNCHANGED <<session, uploads, analyses, templateVars, documentVars, out, schema, formVars>>
  /\ UNCHANGED <<path, template, data, boilerplate, condition, item, structure,
                 content, today>>

\* the interval fires: attempts++ and await uploadSessionsApi.getStatus(...)
PollTick ==
  /\ \E r \in 1..Len(poll.runs) :
       /\ poll.runs[r].stage = "polling"
       /\ poll.runs[r].attempts < MaxTicks
       /\ poll.runs[r].pending < MaxPending
       /\ poll' = [poll EXCEPT !.runs[r].attempts = @ + 1, !.runs[r].pending = @ + 1]
  /\ UNCHANGED <<session, uploads, analyses, templateVars, documentVars, out, schema, formVars>>
  /\ UNCHANGED <<path, template, data, boilerplate, condition, item, structure,
                 content, today>>

\* a status request is answered and its callback goes on
StatusAnswered ==
  /\ \E r \in 1..Len(poll.runs), answer \in StatusAnswers :
       /\ poll.runs[r].pending > 0
       /\ poll' = Answered([poll EXCEPT !.runs[r].pending = @ - 1], r, answer)
  /\ UNCHANGED <<session, uploads, analyses, templateVars, documentVars, out, schema, formVars>>
  /\ UNCHANGED <<path, template, data, boilerplate, condition, item, structure,
                 content, today>>

NextPoll == HandleAnalyze \/ AnalyzeAnswered \/ PollTick \/ StatusAnswered

SpecPoll == InitPoll /\ [][NextPoll]_vars

\* every request is answered in the end, and the interval fires while it is
\* set
FairPoll ==
  /\ SpecPoll
  /\ WF_vars(AnalyzeAnswered)
  /\ WF_vars(PollTick)
  /\ WF_vars(StatusAnswered)

\* the interval of the call of handleAnalyze is set
Polling(r) == r <= Len(poll.runs) /\ poll.runs[r].stage \in {"starting", "polling"}

\* no interval is set and no call of handleAnalyze is about to set one
PollingStopped == \A r \in 1..MaxRuns : ~Polling(r)

\* every polling is cleared in the end
PollingEnds == \A r \in 1..MaxRuns : Polling(r) ~> ~Polling(r)

\* no polling makes more than maxAttempts status checks
AtMostMaxAttempts == \A r \in 1..Len(poll.runs) : poll.runs[r].attempts <= maxAttempts

\* with the polling stopped, analyzing is false
StoppedNotAnalyzing == PollingStopped => ~poll.analyzing

\* with the polling stopped, the step and the result stay as they are
StoppedKeepsPage ==
  [][PollingStopped => (poll'.step = poll.step
                        /\ poll'.analysisResult = poll.analysisResult)]_vars

\* C26: the polling of handleAnalyze always terminates: it is cleared and
\* analyzing is false again after at most 30 status checks, and once it has
\* stopped no later callback changes the step of the wizard or the analysis
\* result, also when status requests overlap or are answered out of order
C26_PollingTerminates ==
  /\ PollingEnds
  /\ []AtMostMaxAttempts
  /\ []StoppedNotAnalyzing
  /\ StoppedKeepsPage


---------------------------------------------------------------------------
(* POST /api/documents/generate: the row comes last *)

\* validateUserData accepts the record for the schema
Accepts(d, sch) ==
  IF Threw(ValidateUserData(d, sch)) THEN FALSE ELSE ValidateUserData(d, sch).valid

\* the document of the request was generated
DocumentBuilt == Called("generateDocument") /\ out["generateDocument"].t = "Document"

\* the file of the row is in the storage
FileStored(row) == Field(row, "output_docx_url").v \in files

\* validation, generation, upload and insert come in this order: what comes
\* later in the request is there only with what comes before
PipelineInOrder ==
  /\ Called("generateDocument") => Accepts(data, schema)
  /\ files # {} => DocumentBuilt
  /\ \A i \in 1..Len(documentRows) : FileStored(documentRows[i])

\* the request was answered with the status
GenerateAnswered(status) ==
  Called("POST /generate") /\ out["POST /generate"].status = status

\* a 201 is given only with the row inserted
CreatedHasRow == GenerateAnswered(201) => Len(documentRows) >= 1

\* a request rejected for missing fields, an unknown template or invalid data
\* has generated, uploaded and inserted nothing
RejectedDidNothing ==
  (GenerateAnswered(400) \/ GenerateAnswered(404)) =>
    (~Called("generateDocument") /\ files = {} /\ documentRows = <<>>)

\* C29: POST /api/documents/generate inserts the generated_documents row only
\* after validateUserData accepted the data, the document was generated and
\* the file was uploaded, in that order; a 201 implies that the row exists,
\* and a request rejected for missing fields, an unknown template or invalid
\* data generates, uploads and inserts nothing
C29_RowAtEndOfPipeline ==
  /\ PipelineInOrder
  /\ CreatedHasRow
  /\ RejectedDidNothing

\* a document was generated, uploaded and recorded, and the request answered
\* with 201
C29_Witness ==
  /\ GenerateAnswered(201)
  /\ Len(documentRows) = 1
  /\ FileStored(documentRows[1])
  /\ Accepts(data, schema)

\* the upload went through and the insert gave an error: a file without a row
UploadedNotRecorded ==
  /\ GenerateAnswered(500)
  /\ files # {}
  /\ documentRows = <<>>


---------------------------------------------------------------------------
(* The rows of one user against the requests of another: routes/documents.js,
   routes/templates.js and the status and review routes of the upload
   session *)

\* a row that was deleted
IsRow(row) == row.t = "object"

\* the row is a row of the user
Owns(userId, row) == IsRow(row) /\ IsStr(Field(row, "user_id"), userId)

\* .eq('user_id', userId) on a table
RowsOwned(rows, userId) == {rows[i] : i \in {k \in 1..Len(rows) : Owns(userId, rows[k])}}

\* .eq('template_id', template.id) on generated_documents
DocumentsOf(templateId) ==
  {documentRows[i] : i \in {k \in 1..Len(documentRows) :
                              /\ IsRow(documentRows[k])
                              /\ Field(documentRows[k], "template_id").v = templateId}}

\* the documents counted for the templates of the user
Counted(userId) ==
  UNION {DocumentsOf(i) : i \in {k \in 1..Len(templateRows) : Owns(userId, templateRows[k])}}

\* the joined templates(name) of a document row
Joined(row) == IF IsRow(row) THEN {row, TemplateOfDocument(row)} ELSE {}

\* res.json(...) of a route, with the rows the answer was made from
Answer(route, userId, status, code, rows) ==
  [route |-> route, caller |-> userId, status |-> status, code |-> code, rows |-> rows]

\* the answer of a route that reads one row
OneRow(route, userId, row, notFound) ==
  IF IsRow(row) THEN Answer(route, userId, 200, "", Joined(row) \cup {row})
  ELSE Answer(route, userId, 404, notFound, {})

\* delete().eq('id', id).eq('user_id', userId)
Deleted(rows, id, userId) ==
  IF IsRow(RowOwned(rows, id, userId)) THEN [rows EXCEPT ![id] = Null] ELSE rows

\* ON DELETE CASCADE of generated_documents.template_id
Cascaded(rows, templateId) ==
  [i \in 1..Len(rows) |->
     IF IsRow(rows[i]) /\ Field(rows[i], "template_id").v = templateId THEN Null
     ELSE rows[i]]

\* update(updates).eq('id', id).eq('user_id', userId): the name is set
Renamed(rows, id, userId, name) ==
  IF IsRow(RowOwned(rows, id, userId))
    THEN [rows EXCEPT ![id] = Obj(("name" :> Str(Trim(name.v))) @@ @.v)]
  ELSE rows

\* the names of the bodies of PUT /api/templates/:templateId; nothing else is
\* in the body
NewNames == <<Undef, Str(" Plan B ")>>

\* two users with a template each, and a reviewed upload session of the first
InitIsolation ==
  /\ schema = SchemaValues[1] /\ data = RouteDataValues[1]
  /\ structure = StructureValues[1] /\ content = ContentValues[1]
  /\ today = Days[1]
  /\ out = NoCalls
  /\ NoForm
  /\ session = WithAnalysis(NewSession("u1"))
  /\ uploads = {} /\ analyses = {} /\ creates = {}
  /\ templateRows = <<OwnedBy("u1", TemplateRecord), OwnedBy("u2", TemplateRecord)>>
  /\ NoDocuments /\ poll = NoPoll
  /\ path = Undef /\ template = Undef /\ boilerplate = Undef /\ condition = Undef
  /\ item = Undef

\* GET /api/documents
GetDocuments ==
  /\ \E caller \in Users :
       Record("res", Answer("GET /documents", caller, 200, "",
                            UNION {Joined(d) : d \in RowsOwned(documentRows, caller)}))
  /\ UNCHANGED <<schema, formVars, sessionVars>>
  /\ UNCHANGED <<path, template, data, boilerplate, condition, item, structure,
                 content, today>>

\* GET /api/documents/:documentId
GetDocument ==
  /\ \E caller \in Users, id \in 1..(Len(documentRows) + 1) :
       Record("res", OneRow("GET /documents/:documentId", caller,
                            RowOwned(documentRows, id, caller), "DOCUMENT_NOT_FOUND"))
  /\ UNCHANGED <<schema, formVars, sessionVars>>
  /\ UNCHANGED <<path, template, data, boilerplate, condition, item, structure,
                 content, today>>

\* GET /api/documents/:documentId/download
DownloadDocument ==
  /\ \E caller \in Users, id \in 1..(Len(documentRows) + 1) :
       Record("res", IF IsRow(RowOwned(documentRows, id, caller))
                       THEN Answer("GET /download", caller, 302, "",
                                   {RowOwned(documentRows, id, caller)})
                     ELSE Answer("GET /download", caller, 404, "DOCUMENT_NOT_FOUND", {}))
  /\ UNCHANGED <<schema, formVars, sessionVars>>
  /\ UNCHANGED <<path, template, data, boilerplate, condition, item, structure,
                 content, today>>

\* DELETE /api/documents/:documentId
DeleteDocument ==
  /\ \E caller \in Users, id \in 1..(Len(documentRows) + 1) :
       /\ documentRows' = Deleted(documentRows, id, caller)
       /\ Record("res", Answer("DELETE /documents", caller, 200, "", {}))
  /\ UNCHANGED <<session, uploads, analyses, templateVars, files, poll, schema, formVars>>
  /\ UNCHANGED <<path, template, data, boilerplate, condition, item, structure,
                 content, today>>

\* GET /api/templates
GetTemplates ==
  /\ \E caller \in Users :
       Record("res", Answer("GET /templates", caller, 200, "",
                            RowsOwned(templateRows, caller) \cup Counted(caller)))
  /\ UNCHANGED <<schema, formVars, sessionVars>>
  /\ UNCHANGED <<path, template, data, boilerplate, condition, item, structure,
                 content, today>>

\* GET /api/templates/:templateId
GetTemplate ==
  /\ \E caller \in Users, id \in 1..Len(templateRows) :
       Record("res", IF IsRow(RowOwned(templateRows, id, caller))
                       THEN Answer("GET /templates/:templateId", caller, 200, "",
                                   {RowOwned(templateRows, id, caller)})
                     ELSE Answer("GET /templates/:templateId", caller, 404,
                                 "TEMPLATE_NOT_FOUND", {}))
  /\ UNCHANGED <<schema, formVars, sessionVars>>
  /\ UNCHANGED <<path, template, data, boilerplate, condition, item, structure,
                 content, today>>

\* PUT /api/templates/:templateId
PutTemplate ==
  /\ \E caller \in Users, id \in 1..Len(templateRows), n \in 1..Len(NewNames) :
       IF ~Truthy(NewNames[n])
         THEN /\ Record("res", Answer("PUT /templates", caller, 400, "NO_UPDATES", {}))
              /\ UNCHANGED templateRows
       ELSE /\ templateRows' = Renamed(templateRows, id, caller, NewNames[n])
            /\ Record("res", IF IsRow(RowOwned(templateRows, id, caller))
                               THEN Answer("PUT /templates", caller, 200, "",
                                           {Renamed(templateRows, id, caller, NewNames[n])[id]})
                             ELSE Answer("PUT /templates", caller, 500,
                                         "Failed to update template", {}))
  /\ UNCHANGED <<session, uploads, analyses, creates, documentVars, poll, schema, formVars>>
  /\ UNCHANGED <<path, template, data, boilerplate, condition, item, structure,
                 content, today>>

\* DELETE /api/templates/:templateId
DeleteTemplate ==
  /\ \E caller \in Users, id \in 1..Len(templateRows) :
       /\ templateRows' = Deleted(templateRows, id, caller)
       /\ documentRows' = IF IsRow(RowOwned(templateRows, id, caller))
                            THEN Cascaded(documentRows, id) ELSE documentRows
       /\ Record("res", Answer("DELETE /templates", caller, 200, "", {}))
  /\ UNCHANGED <<session, uploads, analyses, creates, files, poll, schema, formVars>>
  /\ UNCHANGED <<path, template, data, boilerplate, condition, item, structure,
                 content, today>>

\* GET /api/upload-session/:sessionId/status
GetStatus ==
  /\ \E caller \in Users :
       Record("res", IF IsRow(SessionOf(caller))
                       THEN Answer("GET /status", caller, 200, "", {SessionOf(caller)})
                     ELSE Answer("GET /status", caller, 404, "SESSION_NOT_FOUND", {}))
  /\ UNCHANGED <<schema, formVars, sessionVars>>
  /\ UNCHANGED <<path, template, data, boilerplate, condition, item, structure,
                 content, today>>

NextIsolation ==
  \/ PostGenerate
  \/ PutRegenerate
  \/ GetDocuments
  \/ GetDocument
  \/ DownloadDocument
  \/ DeleteDocument
  \/ GetTemplates
  \/ GetTemplate
  \/ PutTemplate
  \/ DeleteTemplate
  \/ GetStatus
  \/ PatchReview

SpecIsolation == InitIsolation /\ [][NextIsolation]_vars


\* the rows an answer was made from are rows of the user it is given to
ReturnsOwnRows ==
  Called("res") => \A row \in out["res"].rows : Owns(out["res"].caller, row)

\* a document is a document of a template of its user
DocumentsOfOwnTemplates ==
  \A i \in 1..Len(documentRows) :
    IsRow(documentRows[i]) =>
      Owns(Field(documentRows[i], "user_id").v, TemplateOfDocument(documentRows[i]))

\* a template is changed or deleted by a request of its user
TemplatesChangedByOwner ==
  [][\A i \in 1..Len(templateRows) :
       templateRows'[i] # templateRows[i] =>
         /\ out'["res"].route \in {"PUT /templates", "DELETE /templates"}
         /\ Owns(out'["res"].caller, templateRows[i])]_vars

\* a document is regenerated or deleted by a request of its user
DocumentsChangedByOwner ==
  [][\A i \in 1..Len(documentRows) :
       documentRows'[i] # documentRows[i] =>
         IF IsRow(documentRows'[i])
           THEN Owns(out'["PUT /regenerate"].caller, documentRows[i])
         ELSE /\ out'["res"].route \in {"DELETE /documents", "DELETE /templates"}
              /\ Owns(out'["res"].caller, documentRows[i])]_vars

\* a document is generated for the user of the request
DocumentsGeneratedForCaller ==
  [][Len(documentRows') > Len(documentRows) =>
       Owns(out'["POST /generate"].caller, documentRows'[Len(documentRows')])]_vars

\* the upload session is changed by a request of its user
SessionChangedByOwner ==
  [][session' # session => Owns(out'["PATCH /review"].caller, session)]_vars

RequestsOfOwner ==
  /\ \A u \in uploads : Owns(u.caller, session)
  /\ \A a \in analyses : Owns(a.caller, session)
  /\ \A c \in creates : Owns(c.caller, session)

===========================================================================
